---- MODULE Spec2Model ----
(***************************************************************************)
(* Model of the test-case generation core of testcase_generator:          *)
(*   core/parsers/screenshots.py  (ScreenshotParser)                       *)
(*   core/models.py               (TestCase and its validator)             *)
(*   core/generator.py            (TestCaseGenerator)                       *)
(*   core/project.py              (ProjectManager)                          *)
(*   core/parsers/requirements.py (RequirementsParser)                     *)
(*   cli/commands/generate.py     (artifact discovery of generate_cmd)     *)
(*                                                                         *)
(* A Python str is a sequence of tokens.  A token is an indivisible chunk  *)
(* of characters: a label ("Title:"), the record marker prefix ("TC-"),    *)
(* one blank (" "), one decimal digit ("1"), the dot ("."), or a word.     *)
(* No label, blank, digit or dot occurs inside another token or across a   *)
(* token boundary, so str.strip, str.startswith, str.replace, str.split    *)
(* and "in" are computed on the token sequence exactly as Python computes  *)
(* them on the concatenated characters.  The empty str is <<>>.            *)
(*                                                                         *)
(* A text is the sequence of its lines, i.e. the value of text.split('\n').*)
(***************************************************************************)
EXTENDS Integers, Sequences, FiniteSets, TLC

VARIABLES
    response_text,   \* argument of parse_test_cases_from_response
    parse,           \* outcome of the parse call
    case_dict,       \* argument of _create_test_case_from_dict
    steps,           \* argument of _create_test_case_from_dict
    created,         \* outcome of the _create_test_case_from_dict call
    api_key,         \* ScreenshotParser.api_key
    entry,           \* the generation entry point that was called
    image_paths,     \* the artifacts handed to the entry point
    idx,             \* position of the batch loop in image_paths (1-based)
    all_test_cases,  \* accumulator of the batch loop
    calls,           \* one entry per generate_test_cases_from_screenshot call
    generated,       \* outcome of the entry point
    req_text,        \* argument of the requirements parser calls
    extracted,       \* outcome of extract_requirements_from_text
    simple,          \* outcome of parse_simple_requirements
    test_types,      \* argument of create_vision_prompt
    additional_context, \* argument of create_vision_prompt
    prompts,         \* the prompts returned by the create_vision_prompt calls
    session_texts,   \* the reply texts of two parse calls on one parser
    pc,              \* position of each of the two calls in its text
    locals,          \* the frames holding the locals of the two calls
    results,         \* outcome of each of the two calls
    directory,       \* the files of the screenshots directory, in listing order
    case_sensitive,  \* whether the platform matches file names case-sensitively
    discovered,      \* outcome of the artifact discovery of generate_cmd
    loop_locals,     \* the locals of a parse call that reads its lines one by one
    loop_line,       \* the line the loop of that call handled last
    loop_count,      \* the number of lines the loop has handled
    loop_result,     \* outcome of that call
    current_project, \* ProjectManager.current_project
    projects,        \* the Project objects, by the order of their creation
    files,           \* the files and directories the manager has created
    last_call,       \* the last ProjectManager call and its outcome
    calls_made,      \* the number of ProjectManager calls made
    dedup_in,        \* argument of _remove_duplicate_test_cases
    dedup_once,      \* outcome of _remove_duplicate_test_cases
    dedup_twice,     \* outcome of applying it to its own result
    sources,         \* arguments of generate_comprehensive and what each source yields
    comprehensive    \* outcome of generate_comprehensive

vars == <<response_text, parse, case_dict, steps, created, api_key, entry,
          image_paths, idx, all_test_cases, calls, generated,
          req_text, extracted, simple, test_types, additional_context, prompts,
          session_texts, pc, locals, results, directory, case_sensitive, discovered,
          loop_locals, loop_line, loop_count, loop_result,
          current_project, projects, files, last_call, calls_made,
          dedup_in, dedup_once, dedup_twice, sources, comprehensive>>

parserVars == <<response_text, parse>>
assemblerVars == <<case_dict, steps, created>>
batchVars == <<api_key, entry, image_paths, idx, all_test_cases, calls, generated>>
requirementsVars == <<req_text, extracted, simple>>
promptVars == <<test_types, additional_context, prompts>>
sessionVars == <<session_texts, pc, locals, results>>
discoveryVars == <<directory, case_sensitive, discovered>>
loopVars == <<loop_locals, loop_line, loop_count, loop_result>>
projectVars == <<current_project, projects, files, last_call, calls_made>>
dedupVars == <<dedup_in, dedup_once, dedup_twice, sources, comprehensive>>
laterVars == <<loopVars, projectVars, dedupVars>>
restVars == <<requirementsVars, promptVars, sessionVars, discoveryVars, laterVars>>

(***************************************************************************)
(* Bounds of the model.                                                    *)
(***************************************************************************)
MaxLines == 4
MaxLongLines == 6
MaxSteps == 2
MaxArtifacts == 2
MaxReqLines == 3
MaxFiles == 3
MaxTypes == 2
MaxPromptCalls == 2
MaxSessionLines == 2
MaxLoopLines == 5
MaxOrderLines == 6
MaxCalls == 4
MaxCases == 3

(***************************************************************************)
(* Outcome of a Python call: it returns a value or raises an exception.    *)
(* An Optional value is a sequence of at most one element (None is <<>>).  *)
(***************************************************************************)
Pending == [kind |-> "pending", value |-> <<>>, exc |-> "none"]
Return(v) == [kind |-> "return", value |-> v, exc |-> "none"]
Raise(e) == [kind |-> "raise", value |-> <<>>, exc |-> e]
None == <<>>

(***************************************************************************)
(* Python str operations on token sequences.                               *)
(***************************************************************************)
RECURSIVE LStrip(_)
LStrip(s) == IF s # <<>> /\ s[1] = " " THEN LStrip(Tail(s)) ELSE s

RECURSIVE RStrip(_)
RStrip(s) == IF s # <<>> /\ s[Len(s)] = " " THEN RStrip(SubSeq(s, 1, Len(s) - 1)) ELSE s

Strip(s) == RStrip(LStrip(s))

StartsWith(s, prefix) == s # <<>> /\ s[1] = prefix

\* s.replace(old, ''): every occurrence of old is removed
ReplaceWithEmpty(s, old) == SelectSeq(s, LAMBDA t : t # old)

Contains(s, t) == \E i \in 1..Len(s) : s[i] = t

DigitChars == {"0", "1", "2", "3", "4", "5", "6", "7", "8", "9"}

\* s[0].isdigit(), for a non-empty s
FirstIsDigit(s) == s[1] \in DigitChars

\* s.split('.', 1)[1]: what follows the first dot
AfterFirstDot(s) ==
    LET i == CHOOSE k \in 1..Len(s) : s[k] = "." /\ \A j \in 1..(k - 1) : s[j] # "."
    IN SubSeq(s, i + 1, Len(s))

(***************************************************************************)
(* A Python dict is the set of its <<key, value>> items.                   *)
(***************************************************************************)
DictHas(d, k) == \E p \in d : p[1] = k
DictGet(d, k, default) == IF DictHas(d, k) THEN (CHOOSE p \in d : p[1] = k)[2] ELSE default
\* a key that is present keeps its value
DictPut_keep_first(d, k, v) == IF DictHas(d, k) THEN d ELSE d \cup {<<k, v>>}

DictPut(d, k, v) == {p \in d : p[1] # k} \cup {<<k, v>>}

(***************************************************************************)
(* core/models.py                                                          *)
(***************************************************************************)
TestCaseType == {"FUNC", "BOUND", "NEG", "PERM", "SEC", "PERF", "A11Y"}
Priority == {"P0", "P1", "P2", "P3"}

\* a validator that accepts every list
steps_always_valid(v) == Return(v)

\* @validator('steps'): "if not v: raise ValueError"
steps_must_not_be_empty(v) ==
    IF v = <<>> THEN Raise("ValueError") ELSE Return(v)

\* TestCase(...): pydantic runs the validators and raises ValidationError
\* when one of them raises; every other field given here is well-typed.
TestCase(id, title, test_type, priority, preconditions, step_list, expected_result, metadata) ==
    IF steps_must_not_be_empty(step_list).kind = "raise"
    THEN Raise("ValidationError")
    ELSE Return([id |-> id,
                 title |-> title,
                 test_type |-> test_type,
                 priority |-> priority,
                 preconditions |-> preconditions,
                 steps |-> step_list,
                 expected_result |-> expected_result,
                 metadata |-> metadata])

(***************************************************************************)
(* core/parsers/screenshots.py: _create_test_case_from_dict                *)
(***************************************************************************)
EmptyStr == <<>>

\* the raw string is used as the type, without the fallback
type_mapping_nofallback(d) ==
    LET raw == DictGet(d, "type", <<"FUNC">>)
    IN IF raw = <<>> THEN "FUNC" ELSE raw[1]

\* type_mapping.get(case_dict.get('type', 'FUNC'), TestCaseType.FUNC)
type_mapping_get(d) ==
    LET raw == DictGet(d, "type", <<"FUNC">>)
    IN IF Len(raw) = 1 /\ raw[1] \in TestCaseType THEN raw[1] ELSE "FUNC"

\* priority_mapping.get(case_dict.get('priority', 'P2'), Priority.P2)
priority_mapping_get(d) ==
    LET raw == DictGet(d, "priority", <<"P2">>)
    IN IF Len(raw) = 1 /\ raw[1] \in Priority THEN raw[1] ELSE "P2"

\* the TestCase(...) expression of lines 315-327
build_test_case(d, step_list) ==
    TestCase(DictGet(d, "id", EmptyStr),
             DictGet(d, "title", EmptyStr),
             type_mapping_get(d),
             priority_mapping_get(d),
             IF DictGet(d, "preconditions", EmptyStr) # EmptyStr
                 THEN <<DictGet(d, "preconditions", EmptyStr)>> ELSE <<>>,
             step_list,
             DictGet(d, "expected_result", EmptyStr),
             [covered_elements |-> DictGet(d, "covered_elements", EmptyStr),
              source |-> "screenshot_ai"])

\* without the try/except: the ValidationError leaves the function
create_test_case_from_dict_uncaught(d, step_list) ==
    LET r == build_test_case(d, step_list)
    IN IF r.kind = "raise" THEN r ELSE Return(<<r.value>>)

\* try: return TestCase(...)  except Exception: return None
create_test_case_from_dict(d, step_list) ==
    LET r == build_test_case(d, step_list)
    IN IF r.kind = "raise" THEN Return(None) ELSE Return(<<r.value>>)

(***************************************************************************)
(* core/parsers/screenshots.py: parse_test_cases_from_response             *)
(***************************************************************************)
\* the locals of the call before the loop (lines 224-229); exc is the
\* exception in flight, "none" while the call runs normally
ParseStart ==
    [test_cases |-> <<>>, current_case |-> {}, current_steps |-> <<>>,
     in_steps |-> FALSE, exc |-> "none"]

\* test_case = self._create_test_case_from_dict(current_case, current_steps)
\* if test_case: test_cases.append(test_case)
SaveCurrent(st) ==
    LET r == create_test_case_from_dict(st.current_case, st.current_steps)
    IN IF r.kind = "raise" THEN [st EXCEPT !.exc = r.exc]
       ELSE [st EXCEPT !.test_cases = @ \o r.value]

\* a record that has a title is not saved
SaveIfOpen_untitled(st) ==
    IF st.current_case # {} /\ ~DictHas(st.current_case, "title") THEN SaveCurrent(st) ELSE st

\* "if current_case:" guards the save: an empty dict is false
SaveIfOpen(st) == IF st.current_case # {} THEN SaveCurrent(st) ELSE st

\* every scalar label ends step collection
SetField_ends_steps(st, key, label, line) ==
    [st EXCEPT !.current_case = DictPut(@, key, Strip(ReplaceWithEmpty(line, label))),
               !.in_steps = FALSE]

\* current_case[key] = line.replace(label, '').strip()
SetField(st, key, label, line) ==
    [st EXCEPT !.current_case = DictPut(@, key, Strip(ReplaceWithEmpty(line, label)))]

\* the text after the dot is not trimmed
StepText_untrimmed(line) == IF Contains(line, ".") THEN AfterFirstDot(line) ELSE line

\* the numbered line is kept whole
StepText_numbered(line) == line

\* line.split('.', 1)[1].strip() if '.' in line else line
StepText(line) == IF Contains(line, ".") THEN Strip(AfterFirstDot(line)) ELSE line

\* one iteration of "for line in lines" (lines 231-271)
ParseLine(st, raw) ==
    LET line == Strip(raw) IN
    IF st.exc # "none" THEN st
    ELSE IF StartsWith(line, "TC-") THEN
        LET saved == SaveIfOpen(st)
        IN IF saved.exc # "none" THEN saved
           ELSE [saved EXCEPT !.current_case = {<<"id", line>>},
                              !.current_steps = <<>>,
                              !.in_steps = FALSE]
    ELSE IF StartsWith(line, "Title:") THEN SetField(st, "title", "Title:", line)
    ELSE IF StartsWith(line, "Type:") THEN SetField(st, "type", "Type:", line)
    ELSE IF StartsWith(line, "Priority:") THEN SetField(st, "priority", "Priority:", line)
    ELSE IF StartsWith(line, "Preconditions:")
        THEN SetField(st, "preconditions", "Preconditions:", line)
    ELSE IF StartsWith(line, "Steps:") THEN [st EXCEPT !.in_steps = TRUE]
    ELSE IF StartsWith(line, "Expected Result:")
        THEN [SetField(st, "expected_result", "Expected Result:", line)
                 EXCEPT !.in_steps = FALSE]
    ELSE IF StartsWith(line, "Covered Elements:")
        THEN SetField(st, "covered_elements", "Covered Elements:", line)
    ELSE IF st.in_steps /\ line # <<>> /\ FirstIsDigit(line)
        THEN [st EXCEPT !.current_steps = Append(@, StepText(line))]
    ELSE st

RECURSIVE ParseLines(_, _)
ParseLines(st, lines) ==
    IF lines = <<>> THEN st ELSE ParseLines(ParseLine(st, Head(lines)), Tail(lines))

\* the whole call: the loop, the save of the last record, the return
parse_test_cases_from_response(text) ==
    LET after == ParseLines(ParseStart, text)
        final == IF after.exc # "none" THEN after ELSE SaveIfOpen(after)
    IN IF final.exc # "none" THEN Raise(final.exc) ELSE Return(final.test_cases)

(***************************************************************************)
(* core/parsers/screenshots.py: encode_image, call_vision_api,             *)
(* generate_test_cases_from_screenshot.                                    *)
(*                                                                         *)
(* An artifact is the file an image path names: whether it exists as a     *)
(* file, the suffix of its name, and whether PIL can decode it.  The       *)
(* network is the environment: each request gets one answer from it.       *)
(***************************************************************************)
supported_formats == {"png", "jpg", "jpeg", "bmp", "tiff"}

\* str.lower() on the suffixes of the model
Lower(suffix) ==
    CASE suffix = "PNG" -> "png"
      [] suffix = "Jpg" -> "jpg"
      [] OTHER -> suffix

\* utils/validators.py: the path exists and is a file
validate_file_path(image) == image.exists

encode_image(image) ==
    IF ~validate_file_path(image) THEN Raise("FileNotFoundError")
    ELSE IF Lower(image.suffix) \notin supported_formats THEN Raise("ValueError")
    ELSE IF ~image.decodable THEN Raise("UnidentifiedImageError")
    ELSE Return(<<"base64">>)

\* the request is sent whether or not a key is configured
call_vision_api_unchecked(image_base64, net) ==
    [posted |-> TRUE,
     out |-> IF api_key = EmptyStr THEN Raise("ValueError")
             ELSE IF net.kind = "transport" THEN Raise("RequestException")
             ELSE IF net.kind = "badjson" THEN Raise("KeyError")
             ELSE Return(net.text)]

\* posted: whether requests.post was called.  net: the answer of the
\* service, a transport failure (requests.post or raise_for_status raise
\* RequestException), a body without choices[0].message.content, or a text
call_vision_api(image_base64, net) ==
    IF api_key = EmptyStr
    THEN [posted |-> FALSE, out |-> Raise("ValueError")]
    ELSE [posted |-> TRUE,
          out |-> IF net.kind = "transport" THEN Raise("RequestException")
                  ELSE IF net.kind = "badjson" THEN Raise("KeyError")
                  ELSE Return(net.text)]

\* try: encode, (build the prompt,) call the API, parse  except: raise.
\* create_vision_prompt has no effect and cannot fail; it is left out here.
generate_test_cases_from_screenshot(image, net) ==
    LET enc == encode_image(image) IN
    IF enc.kind = "raise"
    THEN [out |-> enc, posted |-> FALSE, parsed |-> FALSE]
    ELSE LET api == call_vision_api(enc.value, net) IN
         IF api.out.kind = "raise"
         THEN [out |-> api.out, posted |-> api.posted, parsed |-> FALSE]
         ELSE [out |-> parse_test_cases_from_response(api.out.value),
               posted |-> api.posted, parsed |-> TRUE]

(***************************************************************************)
(* The batch loops.  acc holds all_test_cases and the exception in flight; *)
(* r is the outcome of generate_test_cases_from_screenshot for one path.   *)
(***************************************************************************)
\* the loop body without its try/except
multiple_screenshots_uncaught(acc, r) ==
    IF r.kind = "return" THEN [acc EXCEPT !.all_test_cases = @ \o r.value]
    ELSE [acc EXCEPT !.exc = r.exc]

\* ScreenshotParser.generate_test_cases_from_multiple_screenshots, loop body:
\* try: all_test_cases.extend(...)  except Exception: continue
multiple_screenshots_body(acc, r) ==
    IF r.kind = "return" THEN [acc EXCEPT !.all_test_cases = @ \o r.value]
    ELSE acc

\* TestCaseGenerator.generate_from_screenshots, loop body:
\* try: all_test_cases.extend(...)  except Exception: continue
generate_from_screenshots_body(acc, r) ==
    IF r.kind = "return" THEN [acc EXCEPT !.all_test_cases = @ \o r.value]
    ELSE acc

(***************************************************************************)
(* Inputs.                                                                 *)
(***************************************************************************)
SeqsUpTo(S, n) == UNION {[1..k -> S] : k \in 1..n}

\* lines of a reply of the vision model
ReplyLines ==
    { <<"TC-", "1">>,
      <<" ", "Title:", " ", "a", " ">>,
      <<"Type:", " ", "NEG">>,
      <<"Type:", " ", "WEIRD">>,
      <<"Priority:", " ", "P0">>,
      <<"Priority:", " ", "HIGH">>,
      <<"Steps:">>,
      <<"1", ".", " ", "a">>,
      <<"2", ".">>,
      <<"Expected Result:", " ", "b">>,
      <<>> }

\* the lines that open records and collect steps, for longer replies
StepLines ==
    { <<"TC-", "1">>,
      <<"Title:", " ", "a">>,
      <<"Steps:">>,
      <<"1", ".", " ", "a">> }

Texts == SeqsUpTo(ReplyLines, MaxLines) \cup SeqsUpTo(StepLines, MaxLongLines)

\* the items a case_dict may hold
OptionalItem(k, values) == {{}} \cup {{<<k, v>>} : v \in values}

CaseDicts ==
    {a \cup b \cup c \cup d :
        a \in OptionalItem("id", {<<"TC-", "1">>}),
        b \in OptionalItem("type", {<<"NEG">>, <<"A11Y">>, <<"WEIRD">>, <<"func">>, <<>>}),
        c \in OptionalItem("priority", {<<"P0">>, <<"P3">>, <<"HIGH">>, <<>>}),
        d \in OptionalItem("preconditions", {<<"a">>, <<>>})}

StepLists == {<<>>} \cup SeqsUpTo({<<"a">>, <<>>}, MaxSteps)

Artifacts ==
    { [exists |-> TRUE, suffix |-> "png", decodable |-> TRUE],
      [exists |-> TRUE, suffix |-> "PNG", decodable |-> TRUE],
      [exists |-> FALSE, suffix |-> "png", decodable |-> TRUE],
      [exists |-> TRUE, suffix |-> "gif", decodable |-> TRUE],
      [exists |-> TRUE, suffix |-> "Jpg", decodable |-> FALSE] }

ReplyA == << <<"TC-", "1">>, <<"Steps:">>, <<"1", ".", " ", "a">> >>
ReplyB == << <<"TC-", "2">>, <<"Type:", " ", "WEIRD">>, <<"Steps:">>, <<"1", ".", " ", "b">> >>
ReplyEmpty == << <<"a">> >>

NetOutcomes ==
    { [kind |-> "transport", text |-> <<>>],
      [kind |-> "badjson", text |-> <<>>],
      [kind |-> "ok", text |-> ReplyA],
      [kind |-> "ok", text |-> ReplyB],
      [kind |-> "ok", text |-> ReplyEmpty] }

BatchEntries == {"multiple_screenshots", "generate_from_screenshots"}

(***************************************************************************)
(* Specification of the response parser: one call on one reply text.       *)
(***************************************************************************)
AssemblerIdle == case_dict = {} /\ steps = <<>> /\ created = Pending

RequirementsIdle == req_text = <<>> /\ extracted = Pending /\ simple = Pending

PromptIdle == test_types = <<>> /\ additional_context = <<>> /\ prompts = <<>>

SessionIdle == session_texts = <<>> /\ pc = <<>> /\ locals = <<>> /\ results = <<>>

DiscoveryIdle == directory = <<>> /\ case_sensitive = TRUE /\ discovered = Pending

LoopIdle ==
    /\ loop_locals = <<>> /\ loop_line = <<>> /\ loop_count = 0 /\ loop_result = Pending

ProjectIdle ==
    /\ current_project = None /\ projects = <<>> /\ files = {} /\ last_call = <<>>
    /\ calls_made = 0

DedupIdle ==
    /\ dedup_in = <<>> /\ dedup_once = Pending /\ dedup_twice = Pending
    /\ sources = <<>> /\ comprehensive = Pending

BatchIdle ==
    /\ api_key = EmptyStr
    /\ entry = "none"
    /\ image_paths = <<>>
    /\ idx = 1
    /\ all_test_cases = <<>>
    /\ calls = <<>>
    /\ generated = Pending

Init ==
    /\ response_text \in Texts
    /\ parse = Pending
    /\ AssemblerIdle
    /\ BatchIdle
    /\ RequirementsIdle /\ PromptIdle /\ SessionIdle /\ DiscoveryIdle
    /\ LoopIdle /\ ProjectIdle /\ DedupIdle

ParseCall ==
    /\ parse = Pending
    /\ parse' = parse_test_cases_from_response(response_text)
    /\ UNCHANGED <<response_text, assemblerVars, batchVars, restVars>>

Next == ParseCall

Spec == Init /\ [][Next]_vars

ParserIdle == response_text = <<>> /\ parse = Pending

(***************************************************************************)
(* The response parser on replies whose first line is a record marker.     *)
(***************************************************************************)
InitMarked ==
    /\ response_text \in {t \in Texts : StartsWith(Strip(t[1]), "TC-")}
    /\ parse = Pending
    /\ AssemblerIdle
    /\ BatchIdle
    /\ RequirementsIdle /\ PromptIdle /\ SessionIdle /\ DiscoveryIdle
    /\ LoopIdle /\ ProjectIdle /\ DedupIdle

MarkedSpec == InitMarked /\ [][Next]_vars

(***************************************************************************)
(* Specification of the assembler: one _create_test_case_from_dict call.   *)
(***************************************************************************)
InitAssembler ==
    /\ case_dict \in CaseDicts
    /\ steps \in StepLists
    /\ created = Pending
    /\ ParserIdle
    /\ BatchIdle
    /\ RequirementsIdle /\ PromptIdle /\ SessionIdle /\ DiscoveryIdle
    /\ LoopIdle /\ ProjectIdle /\ DedupIdle

CreateCall ==
    /\ created = Pending
    /\ created' = create_test_case_from_dict(case_dict, steps)
    /\ UNCHANGED <<case_dict, steps, parserVars, batchVars, restVars>>

NextAssembler == CreateCall

AssemblerSpec == InitAssembler /\ [][NextAssembler]_vars

(***************************************************************************)
(* Specification of the generation entry points: one call of               *)
(* generate_test_cases_from_screenshot on one path, or one call of a batch *)
(* entry point on a list of paths.                                         *)
(***************************************************************************)
InitBatch ==
    /\ api_key \in {EmptyStr, <<"sk">>}
    /\ \/ entry = "screenshot" /\ image_paths \in [1..1 -> Artifacts]
       \/ entry \in BatchEntries /\ image_paths \in ({<<>>} \cup SeqsUpTo(Artifacts, MaxArtifacts))
    /\ idx = 1
    /\ all_test_cases = <<>>
    /\ calls = <<>>
    /\ generated = Pending
    /\ ParserIdle
    /\ AssemblerIdle
    /\ RequirementsIdle /\ PromptIdle /\ SessionIdle /\ DiscoveryIdle
    /\ LoopIdle /\ ProjectIdle /\ DedupIdle

CallRecord(i, g) == [index |-> i, out |-> g.out, posted |-> g.posted, parsed |-> g.parsed]

\* generate_test_cases_from_screenshot called by the end caller
GenerateFromScreenshot ==
    /\ entry = "screenshot"
    /\ generated = Pending
    /\ \E net \in NetOutcomes :
          LET g == generate_test_cases_from_screenshot(image_paths[1], net) IN
          /\ generated' = g.out
          /\ calls' = Append(calls, CallRecord(1, g))
    /\ idx' = idx + 1
    /\ UNCHANGED <<api_key, entry, image_paths, all_test_cases, parserVars, assemblerVars, restVars>>

\* one iteration of "for image_path in image_paths"
MultipleScreenshotsIteration ==
    /\ entry = "multiple_screenshots"
    /\ generated = Pending
    /\ idx <= Len(image_paths)
    /\ \E net \in NetOutcomes :
          LET g == generate_test_cases_from_screenshot(image_paths[idx], net)
              acc == multiple_screenshots_body(
                         [all_test_cases |-> all_test_cases, exc |-> "none"], g.out)
          IN /\ all_test_cases' = acc.all_test_cases
             /\ calls' = Append(calls, CallRecord(idx, g))
             /\ generated' = IF acc.exc # "none" THEN Raise(acc.exc) ELSE Pending
    /\ idx' = idx + 1
    /\ UNCHANGED <<api_key, entry, image_paths, parserVars, assemblerVars, restVars>>

\* the loop is over: return all_test_cases
MultipleScreenshotsReturn ==
    /\ entry = "multiple_screenshots"
    /\ generated = Pending
    /\ idx > Len(image_paths)
    /\ generated' = Return(all_test_cases)
    /\ UNCHANGED <<api_key, entry, image_paths, idx, all_test_cases, calls,
                   parserVars, assemblerVars, restVars>>

\* one iteration of "for screenshot_path in screenshot_paths"
GenerateFromScreenshotsIteration ==
    /\ entry = "generate_from_screenshots"
    /\ generated = Pending
    /\ idx <= Len(image_paths)
    /\ \E net \in NetOutcomes :
          LET g == generate_test_cases_from_screenshot(image_paths[idx], net)
              acc == generate_from_screenshots_body(
                         [all_test_cases |-> all_test_cases, exc |-> "none"], g.out)
          IN /\ all_test_cases' = acc.all_test_cases
             /\ calls' = Append(calls, CallRecord(idx, g))
             /\ generated' = IF acc.exc # "none" THEN Raise(acc.exc) ELSE Pending
    /\ idx' = idx + 1
    /\ UNCHANGED <<api_key, entry, image_paths, parserVars, assemblerVars, restVars>>

GenerateFromScreenshotsReturn ==
    /\ entry = "generate_from_screenshots"
    /\ generated = Pending
    /\ idx > Len(image_paths)
    /\ generated' = Return(all_test_cases)
    /\ UNCHANGED <<api_key, entry, image_paths, idx, all_test_cases, calls,
                   parserVars, assemblerVars, restVars>>

NextBatch ==
    \/ GenerateFromScreenshot
    \/ MultipleScreenshotsIteration
    \/ MultipleScreenshotsReturn
    \/ GenerateFromScreenshotsIteration
    \/ GenerateFromScreenshotsReturn

BatchSpec == InitBatch /\ [][NextBatch]_vars

(***************************************************************************)
(* Vocabulary of the claims about the response parser.                     *)
(***************************************************************************)
Returned == parse.kind = "return"

IsMarker(raw) == StartsWith(Strip(raw), "TC-")
IsStepsLabel(raw) == StartsWith(Strip(raw), "Steps:")
IsExpectedLabel(raw) == StartsWith(Strip(raw), "Expected Result:")
IsNumbered(raw) == Strip(raw) # <<>> /\ FirstIsDigit(Strip(raw))

MarkerLines(text) == {i \in 1..Len(text) : IsMarker(text[i])}

\* the marker lines that are followed, before the next marker, by a
\* 'Steps:' line and later a digit-leading line
MarkersWithSteps(text) ==
    {m \in MarkerLines(text) :
        \E k, j \in 1..Len(text) :
            /\ m < k /\ k < j
            /\ IsStepsLabel(text[k])
            /\ IsNumbered(text[j])
            /\ \A i \in (m + 1)..j : ~IsMarker(text[i])}

\* the digit-leading lines after line m that the parser collects as steps:
\* a 'Steps:' line stands between m and the line, with no later
\* 'Expected Result:' line before it
NumberedAfter(text, m) ==
    {j \in (m + 1)..Len(text) :
        /\ IsNumbered(text[j])
        /\ \E k \in (m + 1)..(j - 1) :
              /\ IsStepsLabel(text[k])
              /\ \A e \in (k + 1)..(j - 1) : ~IsExpectedLabel(text[e])}

(***************************************************************************)
(* C1: for every reply text in which no trimmed line starts with 'TC-',    *)
(* parse_test_cases_from_response returns the empty list.                  *)
(***************************************************************************)
C1_NoMarkerNoRecord ==
    (Returned /\ MarkerLines(response_text) = {}) => parse.value = <<>>

(***************************************************************************)
(* C2: every returned TestCase has a non-empty steps list, and only        *)
(* records opened by a marker that is followed by a 'Steps:' line and a    *)
(* digit-leading line (before the next marker) are returned: a record that *)
(* collected no step contributes nothing.                                  *)
(***************************************************************************)
C2_StepsNeverEmpty ==
    Returned =>
        /\ \A i \in 1..Len(parse.value) : parse.value[i].steps # <<>>
        /\ Cardinality({i \in 1..Len(parse.value) : parse.value[i].id # EmptyStr})
              <= Cardinality(MarkersWithSteps(response_text))

\* a marker immediately followed by another marker; only the second record,
\* which has a step, is returned
C2_Witness ==
    /\ Returned
    /\ Len(response_text) = 4
    /\ IsMarker(response_text[1]) /\ IsMarker(response_text[2])
    /\ IsStepsLabel(response_text[3]) /\ IsNumbered(response_text[4])
    /\ Len(parse.value) = 1

(***************************************************************************)
(* C3: every returned TestCase has at least one step that is a non-empty   *)
(* string.                                                                 *)
(***************************************************************************)
C3_SomeStepNonEmpty ==
    Returned =>
        \A i \in 1..Len(parse.value) :
            \E k \in 1..Len(parse.value[i].steps) : parse.value[i].steps[k] # EmptyStr

(***************************************************************************)
(* C4: within the list returned by one parse call every record has a       *)
(* non-empty identifier and no two records have the same identifier.       *)
(***************************************************************************)
C4_IdsUniqueNonEmpty ==
    Returned =>
        /\ \A i \in 1..Len(parse.value) : parse.value[i].id # EmptyStr
        /\ \A i, j \in 1..Len(parse.value) :
              i # j => parse.value[i].id # parse.value[j].id

(***************************************************************************)
(* C5: a reply text with exactly one 'TC-' marker line, followed by a      *)
(* 'Steps:' line and n >= 1 recognized numbered step lines, parses to      *)
(* exactly one record, and that record has n steps.                        *)
(***************************************************************************)
C5_OneMarkerOneRecord ==
    \A m \in MarkerLines(response_text) :
        (/\ Returned
         /\ MarkerLines(response_text) = {m}
         /\ NumberedAfter(response_text, m) # {})
        => /\ Len(parse.value) = 1
           /\ Len(parse.value[1].steps) = Cardinality(NumberedAfter(response_text, m))

(***************************************************************************)
(* C6: parse_test_cases_from_response never raises: whatever the text, the *)
(* call ends by returning a list.                                          *)
(***************************************************************************)
C6_ParseNeverRaises == parse.kind # "raise"

\* a record was opened and failed validation, and the call still returned
C6_Witness ==
    /\ Returned
    /\ MarkerLines(response_text) # {}
    /\ MarkersWithSteps(response_text) = {}
    /\ parse.value = <<>>

(***************************************************************************)
(* Vocabulary of the claims about the generation entry points.             *)
(***************************************************************************)
\* the records of the successful calls of a call log, in log order
RECURSIVE RecordsOfSucceeded(_)
RecordsOfSucceeded(log) ==
    IF log = <<>> THEN <<>>
    ELSE (IF Head(log).out.kind = "return" THEN Head(log).out.value ELSE <<>>)
             \o RecordsOfSucceeded(Tail(log))

FileMissing(image) == ~image.exists
FormatUnsupported(image) == Lower(image.suffix) \notin supported_formats
NoApiKey == api_key = EmptyStr

\* the call of the log entry c met a configuration error: the file is
\* there but its format is not supported, or the format is fine, the image
\* is encoded and no API key is configured
ConfigurationError(c) ==
    LET image == image_paths[c.index] IN
    /\ image.exists
    /\ \/ FormatUnsupported(image)
       \/ image.decodable /\ NoApiKey

(***************************************************************************)
(* C7: a batch entry point never aborts: it attempts every artifact once,  *)
(* in input order, and returns the concatenation, in input order, of the   *)
(* records of the artifacts whose processing succeeded.                    *)
(***************************************************************************)
C7_BatchNeverAborts ==
    entry \in BatchEntries =>
        /\ generated.kind # "raise"
        /\ Len(calls) = idx - 1
        /\ \A i \in 1..Len(calls) : calls[i].index = i
        /\ all_test_cases = RecordsOfSucceeded(calls)
        /\ generated.kind = "return" =>
              /\ Len(calls) = Len(image_paths)
              /\ generated.value = RecordsOfSucceeded(calls)

\* the first artifact failed, the second one succeeded with a record, and
\* the batch returned that record
C7_Witness ==
    /\ entry \in BatchEntries
    /\ generated.kind = "return"
    /\ Len(calls) = 2
    /\ calls[1].out.kind = "raise"
    /\ calls[2].out.kind = "return"
    /\ Len(generated.value) = 1

(***************************************************************************)
(* C8: a generate_test_cases_from_screenshot call whose file is missing,   *)
(* whose format is unsupported, or that has no API key configured fails    *)
(* with an error, issues no network request and never runs the parser.     *)
(***************************************************************************)
C8_FailFastBeforeNetwork ==
    \A i \in 1..Len(calls) :
        LET image == image_paths[calls[i].index] IN
        (FileMissing(image) \/ FormatUnsupported(image) \/ NoApiKey) =>
            /\ calls[i].out.kind = "raise"
            /\ ~calls[i].posted
            /\ ~calls[i].parsed
            /\ entry = "screenshot" => generated = calls[i].out

\* an existing, supported, decodable image and no API key: ValueError
C8_Witness ==
    /\ NoApiKey
    /\ \E i \in 1..Len(calls) :
          /\ image_paths[calls[i].index].exists
          /\ image_paths[calls[i].index].decodable
          /\ ~FormatUnsupported(image_paths[calls[i].index])
          /\ calls[i].out = Raise("ValueError")
          /\ ~calls[i].posted

(***************************************************************************)
(* C9: every generation entry point, the batch entry points included,      *)
(* surfaces a configuration error (missing credential, unsupported         *)
(* format) to its caller as an exception, never as a normal return value.  *)
(***************************************************************************)
C9_ConfigErrorSurfaces ==
    (/\ generated.kind # "pending"
     /\ \E i \in 1..Len(calls) : ConfigurationError(calls[i]))
    => generated.kind = "raise"

(***************************************************************************)
(* C10: _create_test_case_from_dict does not fail on an unrecognized or    *)
(* absent 'type' or 'priority': an unrecognized or absent type yields      *)
(* FUNC, an unrecognized or absent priority yields P2, a recognized value  *)
(* is kept, so type and priority of a record lie in the enumerations.      *)
(***************************************************************************)
C10_EnumFallback ==
    (created.kind # "pending" /\ steps # <<>>) =>
        /\ created.kind = "return"
        /\ Len(created.value) = 1
        /\ LET tc == created.value[1]
               type == DictGet(case_dict, "type", EmptyStr)
               prio == DictGet(case_dict, "priority", EmptyStr)
           IN /\ tc.test_type \in TestCaseType
              /\ tc.priority \in Priority
              /\ tc.test_type = IF type \in {<<t>> : t \in TestCaseType} THEN type[1] ELSE "FUNC"
              /\ tc.priority = IF prio \in {<<q>> : q \in Priority} THEN prio[1] ELSE "P2"

\* an unrecognized type and an unrecognized priority fall back
C10_Witness ==
    /\ created.kind = "return"
    /\ DictGet(case_dict, "type", EmptyStr) = <<"WEIRD">>
    /\ DictGet(case_dict, "priority", EmptyStr) = <<"HIGH">>
    /\ Len(created.value) = 1
    /\ created.value[1].test_type = "FUNC"
    /\ created.value[1].priority = "P2"


(***************************************************************************)
(* The response parser on a well-formed labelled reply and its excerpts    *)
(* (the reply with some of its lines left out).                            *)
(***************************************************************************)
\* the lines of the labelled reply of one record with three numbered steps
WellFormedReply ==
    << <<"TC-", "0", "0", "1", ":", " ", "Login", " ", "-", " ", "Valid">>,
       <<"Title:", " ", "Valid", " ", "login">>,
       <<"Type:", " ", "FUNC">>,
       <<"Priority:", " ", "P0">>,
       <<"Steps:">>,
       <<"1", ".", " ", "Enter", " ", "username">>,
       <<"2", ".", " ", "Enter", " ", "password">>,
       <<"3", ".", " ", "Click", " ", "login">>,
       <<"Expected Result:", " ", "User", " ", "reaches", " ", "dashboard">> >>

\* the lines of t whose index is in I, in the order of t, from index k on
RECURSIVE Pick(_, _, _)
Pick(t, I, k) ==
    IF k > Len(t) THEN <<>>
    ELSE (IF k \in I THEN <<t[k]>> ELSE <<>>) \o Pick(t, I, k + 1)

Excerpts(t) == {Pick(t, I, 1) : I \in (SUBSET (1..Len(t))) \ {{}}}

InitWellFormed ==
    /\ response_text \in Excerpts(WellFormedReply)
    /\ parse = Pending
    /\ AssemblerIdle
    /\ BatchIdle
    /\ RequirementsIdle /\ PromptIdle /\ SessionIdle /\ DiscoveryIdle
    /\ LoopIdle /\ ProjectIdle /\ DedupIdle

WellFormedSpec == InitWellFormed /\ [][Next]_vars

(***************************************************************************)
(* C11: the reply 'TC-001: Login - Valid', 'Title: Valid login',           *)
(* 'Type: FUNC', 'Priority: P0', 'Steps:', '1. Enter username',            *)
(* '2. Enter password', '3. Click login', 'Expected Result: User reaches   *)
(* dashboard' (one per line) parses to exactly one record with title       *)
(* 'Valid login', type FUNC, priority P0, the three steps without their    *)
(* numbers in that order, and expected result 'User reaches dashboard'.    *)
(***************************************************************************)
C11_WellFormedReply ==
    (response_text = WellFormedReply /\ parse.kind # "pending") =>
        /\ parse.kind = "return"
        /\ Len(parse.value) = 1
        /\ LET tc == parse.value[1]
           IN /\ tc.title = <<"Valid", " ", "login">>
              /\ tc.test_type = "FUNC"
              /\ tc.priority = "P0"
              /\ tc.steps = << <<"Enter", " ", "username">>,
                               <<"Enter", " ", "password">>,
                               <<"Click", " ", "login">> >>
              /\ tc.expected_result = <<"User", " ", "reaches", " ", "dashboard">>

\* the whole reply has been parsed into a record
C11_Witness ==
    /\ response_text = WellFormedReply
    /\ parse.kind = "return"
    /\ Len(parse.value) = 1
    /\ Len(parse.value[1].steps) = 3


(***************************************************************************)
(* core/parsers/requirements.py  (RequirementsParser)                      *)
(*                                                                         *)
(* The regular expressions of this class look inside words, so here a      *)
(* token is one character: a letter, a digit, "-", "_", ":", "'" or the    *)
(* blank.  The operators above work on these strings unchanged.            *)
(***************************************************************************)
UpperCase == <<"A", "B", "C", "D", "E", "F", "G", "H", "I", "J", "K", "L", "M",
              "N", "O", "P", "Q", "R", "S", "T", "U", "V", "W", "X", "Y", "Z">>
LowerCase == <<"a", "b", "c", "d", "e", "f", "g", "h", "i", "j", "k", "l", "m",
              "n", "o", "p", "q", "r", "s", "t", "u", "v", "w", "x", "y", "z">>

\* str.lower() and str.upper() as functions on the letters
ToLower ==
    [c \in {UpperCase[i] : i \in 1..Len(UpperCase)} |->
        LowerCase[CHOOSE i \in 1..Len(UpperCase) : UpperCase[i] = c]]
ToUpper ==
    [c \in {LowerCase[i] : i \in 1..Len(LowerCase)} |->
        UpperCase[CHOOSE i \in 1..Len(LowerCase) : LowerCase[i] = c]]

IsUpper(c) == c \in DOMAIN ToLower
IsLower(c) == c \in DOMAIN ToUpper

\* str.lower() and str.upper() on one character
LowerChar(c) == IF IsUpper(c) THEN ToLower[c] ELSE c
UpperChar(c) == IF IsLower(c) THEN ToUpper[c] ELSE c

LowerStr(s) == [i \in 1..Len(s) |-> LowerChar(s[i])]
UpperStr(s) == [i \in 1..Len(s) |-> UpperChar(s[i])]

\* the character classes \d and \w
IsDigit(c) == c \in DigitChars
IsWord(c) == IsUpper(c) \/ IsLower(c) \/ IsDigit(c) \/ c = "_"

\* index of the last character of the longest run of digits (of word
\* characters) that starts at index i; i - 1 when there is none
RECURSIVE DigitsEnd(_, _)
DigitsEnd(s, i) == IF i <= Len(s) /\ IsDigit(s[i]) THEN DigitsEnd(s, i + 1) ELSE i - 1

RECURSIVE WordEnd(_, _)
WordEnd(s, i) == IF i <= Len(s) /\ IsWord(s[i]) THEN WordEnd(s, i + 1) ELSE i - 1

Max(S) == CHOOSE x \in S : \A y \in S : y <= x
Min(S) == CHOOSE x \in S : \A y \in S : x <= y

\* the literal lit stands at index i of s, letter case ignored (re.IGNORECASE)
LitAt(s, i, lit) ==
    /\ i + Len(lit) - 1 <= Len(s)
    /\ \A k \in 1..Len(lit) : LowerChar(s[i + k - 1]) = LowerChar(lit[k])

\* self.id_patterns: each pattern is a literal, an optional middle part
\* ("w_" is \w+_ and "w" is \w+) and a final \d+
id_patterns ==
    << [lit |-> <<"R", "E", "Q", "-">>, mid |-> "none"],
       [lit |-> <<"R", "E", "Q", "_">>, mid |-> "w_"],
       [lit |-> <<"R", "E", "Q">>, mid |-> "w"],
       [lit |-> <<"R", "-">>, mid |-> "none"],
       [lit |-> <<"R", "E", "Q", "U", "I", "R", "E", "M", "E", "N", "T", "-">>, mid |-> "none"] >>

\* index of the last character of the match of pattern p that starts at
\* index i of s, 0 when p does not match there.  \w+ and \d+ are greedy:
\* \w+ gives back characters only as far as the rest needs them.
MatchEnd(p, s, i) ==
    LET j == i + Len(p.lit)
        w == WordEnd(s, j)
        seps == {q \in (j + 1)..(w - 1) : s[q] = "_" /\ IsDigit(s[q + 1])}
        digs == {q \in (j + 1)..w : IsDigit(s[q])}
    IN IF ~LitAt(s, i, p.lit) THEN 0
       ELSE IF p.mid = "none" THEN (IF DigitsEnd(s, j) >= j THEN DigitsEnd(s, j) ELSE 0)
       ELSE IF p.mid = "w_" THEN (IF seps # {} THEN DigitsEnd(s, Max(seps) + 1) ELSE 0)
       ELSE (IF digs # {} THEN Max(digs) ELSE 0)

\* re.search(p, s, re.IGNORECASE): the leftmost match as <<first, last>>,
\* None when there is no match
Search(p, s) ==
    LET starts == {i \in 1..Len(s) : MatchEnd(p, s, i) > 0}
    IN IF starts = {} THEN None ELSE <<Min(starts), MatchEnd(p, s, Min(starts))>>

\* re.sub(p, '', s, flags=re.IGNORECASE)
RECURSIVE Sub(_, _)
Sub(p, s) ==
    LET m == Search(p, s)
    IN IF m = None THEN s
       ELSE SubSeq(s, 1, m[1] - 1) \o Sub(p, SubSeq(s, m[2] + 1, Len(s)))

\* _extract_requirement_id with the patterns tried by position in the line
\* instead of by order in the list
extract_requirement_id_leftmost(line) ==
    LET hits == {k \in 1..Len(id_patterns) : Search(id_patterns[k], line) # None}
        first == Min({Search(id_patterns[k], line)[1] : k \in hits})
        k0 == Min({k \in hits : Search(id_patterns[k], line)[1] = first})
    IN IF hits = {} THEN None
       ELSE <<SubSeq(line, first, Search(id_patterns[k0], line)[2])>>

\* _extract_requirement_id (lines 130-143): the match of the first pattern
\* of the list that matches somewhere in the line, as an Optional
extract_requirement_id(line) ==
    LET hits == {k \in 1..Len(id_patterns) : Search(id_patterns[k], line) # None}
        m == Search(id_patterns[Min(hits)], line)
    IN IF hits = {} THEN None ELSE <<SubSeq(line, m[1], m[2])>>

\* self.priority_keywords in insertion order
priority_keywords ==
    << [keyword |-> <<"m", "u", "s", "t">>, priority |-> "P0"],
       [keyword |-> <<"r", "e", "q", "u", "i", "r", "e", "d">>, priority |-> "P0"],
       [keyword |-> <<"c", "r", "i", "t", "i", "c", "a", "l">>, priority |-> "P0"],
       [keyword |-> <<"s", "h", "o", "u", "l", "d">>, priority |-> "P1"],
       [keyword |-> <<"i", "m", "p", "o", "r", "t", "a", "n", "t">>, priority |-> "P1"],
       [keyword |-> <<"c", "o", "u", "l", "d">>, priority |-> "P2"],
       [keyword |-> <<"o", "p", "t", "i", "o", "n", "a", "l">>, priority |-> "P2"],
       [keyword |-> <<"n", "i", "c", "e", " ", "t", "o", " ", "h", "a", "v", "e">>, priority |-> "P3"],
       [keyword |-> <<"w", "o", "n", "'", "t">>, priority |-> "P3"],
       [keyword |-> <<"w", "i", "l", "l", " ", "n", "o", "t">>, priority |-> "P3"] >>

\* "keyword in text": keyword is a substring of text
Occurs(keyword, text) ==
    \E i \in 1..(Len(text) - Len(keyword) + 1) :
        SubSeq(text, i, i + Len(keyword) - 1) = keyword

\* index of the first occurrence, Len(text) + 1 when there is none
FirstOccurrence(keyword, text) ==
    Min({i \in 1..(Len(text) + 1) :
            \/ i = Len(text) + 1
            \/ /\ i + Len(keyword) - 1 <= Len(text)
               /\ SubSeq(text, i, i + Len(keyword) - 1) = keyword})

\* _extract_priority with the keyword that stands first in the text winning
extract_priority_by_position(text) ==
    LET text_lower == LowerStr(text)
        found == {k \in 1..Len(priority_keywords) :
                     Occurs(priority_keywords[k].keyword, text_lower)}
        pos(k) == FirstOccurrence(priority_keywords[k].keyword, text_lower)
    IN IF found = {} THEN "P2"
       ELSE priority_keywords[CHOOSE k \in found : \A o \in found :
                pos(k) < pos(o) \/ (pos(k) = pos(o) /\ k <= o)].priority

\* _extract_priority (lines 145-161): the loop over the mapping returns at
\* the first keyword found in the lower-cased text
RECURSIVE PriorityFrom(_, _)
PriorityFrom(k, text_lower) ==
    IF k > Len(priority_keywords) THEN "P2"
    ELSE IF Occurs(priority_keywords[k].keyword, text_lower)
        THEN priority_keywords[k].priority
    ELSE PriorityFrom(k + 1, text_lower)

extract_priority(text) == PriorityFrom(1, LowerStr(text))

\* re.sub(r'\s+', ' ', s): every run of blanks becomes one blank
RECURSIVE CollapseBlanks(_)
CollapseBlanks(s) ==
    IF s = <<>> THEN <<>>
    ELSE IF s[1] = " " THEN <<" ">> \o CollapseBlanks(LStrip(s))
    ELSE <<s[1]>> \o CollapseBlanks(Tail(s))

\* re.sub(r'^(requirement|req|spec|specification):\s*', '', s, IGNORECASE)
common_prefixes ==
    << <<"r", "e", "q", "u", "i", "r", "e", "m", "e", "n", "t">>, <<"r", "e", "q">>,
       <<"s", "p", "e", "c">>, <<"s", "p", "e", "c", "i", "f", "i", "c", "a", "t", "i", "o", "n">> >>

RemoveCommonPrefix(s) ==
    LET hits == {k \in 1..Len(common_prefixes) : LitAt(s, 1, common_prefixes[k] \o <<":">>)}
    IN IF hits = {} THEN s
       ELSE LStrip(SubSeq(s, Len(common_prefixes[Min(hits)]) + 2, Len(s)))

Untitled == <<"U", "n", "t", "i", "t", "l", "e", "d", " ", "R", "e", "q", "u", "i", "r", "e", "m", "e", "n", "t">>

\* for pattern in self.id_patterns: title = re.sub(pattern, '', title).strip()
RECURSIVE RemoveIds(_, _)
RemoveIds(k, title) ==
    IF k > Len(id_patterns) THEN title
    ELSE RemoveIds(k + 1, Strip(Sub(id_patterns[k], title)))

\* _extract_title (lines 163-188)
extract_title(lines) ==
    IF lines = <<>> THEN Untitled
    ELSE LET title == Strip(CollapseBlanks(RemoveCommonPrefix(RemoveIds(1, lines[1]))))
         IN IF title # <<>> THEN title ELSE Untitled

\* ' '.join(lines)
RECURSIVE JoinBlank(_)
JoinBlank(lines) ==
    IF lines = <<>> THEN <<>>
    ELSE IF Len(lines) = 1 THEN lines[1]
    ELSE lines[1] \o <<" ">> \o JoinBlank(Tail(lines))

\* Requirement(...): the model class has no validator and every field given
\* by the parser is well-typed, so the constructor returns
Requirement(id, title, description, priority, source, metadata) ==
    Return([id |-> id, title |-> title, description |-> description,
            priority |-> priority, source |-> source, metadata |-> metadata])

\* _create_requirement_from_dict (lines 190-225):
\* try: return Requirement(...)  except Exception: return None
create_requirement_from_dict(req_dict, description_lines) ==
    LET description == JoinBlank(description_lines)
        r == Requirement(DictGet(req_dict, "id", EmptyStr),
                         extract_title(description_lines),
                         description,
                         extract_priority(description),
                         "text_file",
                         [line_number |-> DictGet(req_dict, "line_number", 0),
                          original_text |-> description])
    IN IF r.kind = "raise" THEN Return(None) ELSE Return(<<r.value>>)

\* the locals of extract_requirements_from_text before the loop (lines 61-66)
ExtractStart ==
    [requirements |-> <<>>, current_req |-> {}, current_description |-> <<>>,
     in_description |-> FALSE]

\* only the first requirement is saved
SaveRequirement_once(st) ==
    IF st.current_req # {} /\ st.current_description # <<>> /\ st.requirements = <<>>
    THEN [st EXCEPT !.requirements =
             @ \o create_requirement_from_dict(st.current_req, st.current_description).value]
    ELSE st

\* if current_req and current_description: save the requirement
SaveRequirement(st) ==
    IF st.current_req # {} /\ st.current_description # <<>>
    THEN [st EXCEPT !.requirements =
             @ \o create_requirement_from_dict(st.current_req, st.current_description).value]
    ELSE st

\* one iteration of "for line_num, line in enumerate(lines, 1)" (lines 68-93)
ExtractLine(st, raw, line_num) ==
    LET line == Strip(raw)
        req_id == extract_requirement_id(line)
    IN IF line = <<>> THEN st
       ELSE IF req_id # None THEN
           [SaveRequirement(st) EXCEPT
               !.current_req = {<<"id", req_id[1]>>, <<"line_number", line_num>>},
               !.current_description = <<line>>,
               !.in_description = TRUE]
       ELSE IF st.in_description /\ line # <<>>
           THEN [st EXCEPT !.current_description = Append(@, line)]
       ELSE IF st.in_description /\ line = <<>>
           THEN [st EXCEPT !.in_description = FALSE]
       ELSE st

RECURSIVE ExtractLines(_, _, _)
ExtractLines(st, lines, line_num) ==
    IF line_num > Len(lines) THEN st
    ELSE ExtractLines(ExtractLine(st, lines[line_num], line_num), lines, line_num + 1)

\* extract_requirements_from_text (lines 52-102)
extract_requirements_from_text(text) ==
    Return(SaveRequirement(ExtractLines(ExtractStart, text, 1)).requirements)

\* str.strip() of a whole text: blank lines at both ends go, and so do the
\* blanks before the first and after the last remaining line
RECURSIVE DropBlankLines(_)
DropBlankLines(t) ==
    IF t # <<>> /\ Strip(t[1]) = <<>> THEN DropBlankLines(Tail(t)) ELSE t

Reverse(t) == [i \in 1..Len(t) |-> t[Len(t) + 1 - i]]

StripText(t) ==
    LET body == Reverse(DropBlankLines(Reverse(DropBlankLines(t))))
    IN IF body = <<>> THEN <<EmptyStr>>
       ELSE [i \in 1..Len(body) |->
                IF Len(body) = 1 THEN Strip(body[i])
                ELSE IF i = 1 THEN LStrip(body[i])
                ELSE IF i = Len(body) THEN RStrip(body[i])
                ELSE body[i]]

\* the decimal digits of n, most significant first
DigitOf(d) == <<"0", "1", "2", "3", "4", "5", "6", "7", "8", "9">>[d + 1]

RECURSIVE Decimal(_)
Decimal(n) == IF n < 10 THEN <<DigitOf(n)>> ELSE Decimal(n \div 10) \o <<DigitOf(n % 10)>>

\* f"{i:03d}": zero-padded to three digits
RECURSIVE PadZero(_)
PadZero(s) == IF Len(s) >= 3 THEN s ELSE PadZero(<<"0">> \o s)

\* req_id = f"REQ-{i:03d}" (line 246)
simple_req_id(i) == <<"R", "E", "Q", "-">> \o PadZero(Decimal(i))

\* one iteration of "for i, line in enumerate(lines, 1)" (lines 243-262)
SimpleLine(requirements, raw, i) ==
    LET line == Strip(raw)
    IN IF line = <<>> THEN requirements
       ELSE requirements \o
            <<Requirement(simple_req_id(i),
                          IF Len(line) > 100
                              THEN SubSeq(line, 1, 100) \o <<".", ".", ".">> ELSE line,
                          line,
                          extract_priority(line),
                          "manual_input",
                          [line_number |-> i, original_text |-> line]).value>>

RECURSIVE SimpleLines(_, _, _)
SimpleLines(requirements, lines, i) ==
    IF i > Len(lines) THEN requirements
    ELSE SimpleLines(SimpleLine(requirements, lines[i], i), lines, i + 1)

\* parse_simple_requirements (lines 227-266)
parse_simple_requirements(requirements_text) ==
    Return(SimpleLines(<<>>, StripText(requirements_text), 1))

(***************************************************************************)
(* Specification of the requirements parser: both entry points are called  *)
(* on one text.                                                            *)
(***************************************************************************)
\* lines of a requirements text
RequirementLines ==
    { <<"R", "E", "Q", "-", "1", " ", "a">>,
      EmptyStr,
      <<"b">>,
      <<"R", "-", "2", " ", "R", "E", "Q", "-", "3", " ", "s", "h", "o", "u", "l", "d">>,
      <<"c", "o", "u", "l", "d", " ", "x", " ", "M", "u", "s", "t">>,
      <<" ", "r", "e", "q", "_", "a", "b", "_", "7", " ">>,
      <<"R", "E", "Q", "U", "I", "R", "E", "M", "E", "N", "T", "-", "5", ":", " ", "R", "E", "Q", "1", "2">> }

\* the single requirement 'REQ-003: The system must allow password reset'
PasswordReset == << <<"R", "E", "Q", "-", "0", "0", "3", ":", " ", "T", "h", "e", " ", "s", "y", "s", "t", "e", "m", " ",
                    "m", "u", "s", "t", " ", "a", "l", "l", "o", "w", " ",
                    "p", "a", "s", "s", "w", "o", "r", "d", " ", "r", "e", "s", "e", "t">> >>

RequirementTexts == SeqsUpTo(RequirementLines, MaxReqLines) \cup {PasswordReset}

InitRequirements ==
    /\ req_text \in RequirementTexts
    /\ extracted = Pending
    /\ simple = Pending
    /\ ParserIdle /\ AssemblerIdle /\ BatchIdle
    /\ PromptIdle /\ SessionIdle /\ DiscoveryIdle
    /\ LoopIdle /\ ProjectIdle /\ DedupIdle

ExtractCall ==
    /\ extracted = Pending
    /\ extracted' = extract_requirements_from_text(req_text)
    /\ UNCHANGED <<req_text, simple, parserVars, assemblerVars, batchVars,
                   promptVars, sessionVars, discoveryVars, laterVars>>

SimpleCall ==
    /\ simple = Pending
    /\ simple' = parse_simple_requirements(req_text)
    /\ UNCHANGED <<req_text, extracted, parserVars, assemblerVars, batchVars,
                   promptVars, sessionVars, discoveryVars, laterVars>>

NextRequirements == ExtractCall \/ SimpleCall

RequirementsSpec == InitRequirements /\ [][NextRequirements]_vars


(***************************************************************************)
(* Vocabulary of the claims about the requirements parser.                 *)
(***************************************************************************)
Extracted == extracted.kind = "return"
SimpleParsed == simple.kind = "return"

IsBlankLine(raw) == Strip(raw) = <<>>

\* the patterns of the list that match the line somewhere
MatchingPatterns(raw) ==
    {k \in 1..Len(id_patterns) : Search(id_patterns[k], Strip(raw)) # None}

IsIdLine(raw) == ~IsBlankLine(raw) /\ MatchingPatterns(raw) # {}

\* the last line of the block that the ID line i opens: the lines after i
\* up to, and without, the next blank line or ID line
BlockEnd(text, i) ==
    Max({j \in i..Len(text) :
            \A n \in (i + 1)..j : ~IsBlankLine(text[n]) /\ ~IsIdLine(text[n])})

StrippedLines(text, i, j) == [n \in 1..(j - i + 1) |-> Strip(text[i + n - 1])]

NonBlankIndexes(text) == {i \in 1..Len(text) : ~IsBlankLine(text[i])}

(***************************************************************************)
(* C12: in extract_requirements_from_text the description of a requirement *)
(* is its ID line and the lines that follow it up to the next blank line   *)
(* or the next ID line, whichever comes first; a non-ID line that comes    *)
(* after a blank line is not accumulated into the preceding description.   *)
(***************************************************************************)
C12_DescriptionEndsAtBlank ==
    Extracted =>
        \A n \in 1..Len(extracted.value) :
            LET r == extracted.value[n]
                i == r.metadata.line_number
            IN r.description = JoinBlank(StrippedLines(req_text, i, BlockEnd(req_text, i)))

(***************************************************************************)
(* C13: parse_simple_requirements makes every non-blank line one record,   *)
(* in input order, and the k-th record has the identifier REQ-00k, without *)
(* gaps, also when blank lines stand between the requirements.             *)
(***************************************************************************)
C13_SequentialIds ==
    SimpleParsed =>
        /\ Len(simple.value) = Cardinality(NonBlankIndexes(req_text))
        /\ \A k \in 1..Len(simple.value) :
            /\ k <= 9 => simple.value[k].id = <<"R", "E", "Q", "-", "0", "0">> \o <<DigitOf(k)>>
            /\ \E i \in NonBlankIndexes(req_text) :
                /\ Cardinality({j \in NonBlankIndexes(req_text) : j <= i}) = k
                /\ simple.value[k].description = Strip(req_text[i])

(***************************************************************************)
(* C14: the priority of a requirement is the priority of the first         *)
(* keyword, in the order of the mapping, that occurs in the lower-cased    *)
(* full text of the requirement, and P2 when no keyword occurs; where the  *)
(* keywords stand in the text does not matter.                             *)
(***************************************************************************)
KeywordsIn(text) ==
    {k \in 1..Len(priority_keywords) : Occurs(priority_keywords[k].keyword, LowerStr(text))}

PriorityByMappingOrder(r) ==
    r.priority = IF KeywordsIn(r.description) = {} THEN "P2"
                 ELSE priority_keywords[Min(KeywordsIn(r.description))].priority

C14_PriorityByMappingOrder ==
    /\ Extracted => \A n \in 1..Len(extracted.value) : PriorityByMappingOrder(extracted.value[n])
    /\ SimpleParsed => \A n \in 1..Len(simple.value) : PriorityByMappingOrder(simple.value[n])

\* a requirement whose text has 'could' before 'must' is P0, and one
\* without any keyword is P2
C14_Witness ==
    /\ Extracted
    /\ \E n \in 1..Len(extracted.value) :
        LET r == extracted.value[n]
            low == LowerStr(r.description)
        IN /\ KeywordsIn(r.description) = {1, 6}
           /\ FirstOccurrence(<<"c", "o", "u", "l", "d">>, low) < FirstOccurrence(<<"m", "u", "s", "t">>, low)
           /\ r.priority = "P0"
    /\ \E n \in 1..Len(extracted.value) :
        /\ KeywordsIn(extracted.value[n].description) = {}
        /\ extracted.value[n].priority = "P2"

(***************************************************************************)
(* C15: extract_requirements_from_text on the single line                  *)
(* 'REQ-003: The system must allow password reset' returns exactly one     *)
(* record with id 'REQ-003', priority P0 and the title 'The system must    *)
(* allow password reset': no part of the identifier and no leftover prefix *)
(* stands before it.                                                       *)
(***************************************************************************)
C15_PasswordResetRecord ==
    (req_text = PasswordReset /\ Extracted) =>
        /\ Len(extracted.value) = 1
        /\ extracted.value[1].id = <<"R", "E", "Q", "-", "0", "0", "3">>
        /\ extracted.value[1].priority = "P0"
        /\ extracted.value[1].title =
               <<"T", "h", "e", " ", "s", "y", "s", "t", "e", "m", " ",
               "m", "u", "s", "t", " ", "a", "l", "l", "o", "w", " ",
               "p", "a", "s", "s", "w", "o", "r", "d", " ", "r", "e", "s", "e", "t">>

(***************************************************************************)
(* C16: record boundaries follow "first match wins" over the ordered       *)
(* pattern list: the identifier of the record opened by a line is the      *)
(* match of the earliest pattern of the list that matches the line, even   *)
(* when a later pattern matches at an earlier position, and a line matched *)
(* by no pattern opens no record.                                          *)
(***************************************************************************)
C16_FirstPatternWins ==
    Extracted =>
        /\ \A n \in 1..Len(extracted.value) :
            LET r == extracted.value[n]
                line == Strip(req_text[r.metadata.line_number])
                m == Search(id_patterns[Min(MatchingPatterns(line))], line)
            IN /\ MatchingPatterns(line) # {}
               /\ r.id = SubSeq(line, m[1], m[2])
        /\ \A i \in 1..Len(req_text) :
            MatchingPatterns(req_text[i]) = {} =>
                \A n \in 1..Len(extracted.value) : extracted.value[n].metadata.line_number # i

\* a line where the fourth pattern matches before the first one does opens
\* the record of the first pattern's match
C16_Witness ==
    /\ Extracted
    /\ \E n \in 1..Len(extracted.value) :
        LET r == extracted.value[n]
            line == Strip(req_text[r.metadata.line_number])
        IN /\ MatchingPatterns(line) = {1, 4}
           /\ Search(id_patterns[4], line)[1] < Search(id_patterns[1], line)[1]
           /\ r.id = <<"R", "E", "Q", "-", "3">>
    /\ \E i \in 1..Len(req_text) : ~IsBlankLine(req_text[i]) /\ MatchingPatterns(req_text[i]) = {}


(***************************************************************************)
(* cli/commands/generate.py: artifact discovery of generate_cmd when the   *)
(* screenshots option names a directory (lines 136-155).                   *)
(*                                                                         *)
(* A file is its name, a str of characters.  Path.glob matches a name      *)
(* against a pattern with or without regard to letter case, depending on   *)
(* the platform; the platform is part of the environment.                  *)
(***************************************************************************)
image_extensions ==
    << <<".", "p", "n", "g">>, <<".", "j", "p", "g">>, <<".", "j", "p", "e", "g">>,
       <<".", "b", "m", "p">>, <<".", "t", "i", "f", "f">> >>

EndsWith(name, ext) ==
    /\ Len(name) >= Len(ext)
    /\ SubSeq(name, Len(name) - Len(ext) + 1, Len(name)) = ext

\* screenshots_path.glob(f"*{ext}"): the files of the directory, in listing
\* order, whose name ends with ext
Glob(dir, ext, sensitive) ==
    SelectSeq(dir, LAMBDA name :
        IF sensitive THEN EndsWith(name, ext)
        ELSE EndsWith(LowerStr(name), LowerStr(ext)))

\* for ext in image_extensions: extend with glob(ext), glob(ext.upper())
RECURSIVE GlobExtensions(_, _, _)
GlobExtensions(k, dir, sensitive) ==
    IF k > Len(image_extensions) THEN <<>>
    ELSE Glob(dir, image_extensions[k], sensitive)
         \o Glob(dir, UpperStr(image_extensions[k]), sensitive)
         \o GlobExtensions(k + 1, dir, sensitive)

\* the is_dir branch and "if not screenshot_paths: raise typer.Exit(1)"
discover_screenshots(dir, sensitive) ==
    LET screenshot_paths == GlobExtensions(1, dir, sensitive)
    IN IF screenshot_paths = <<>> THEN Raise("Exit") ELSE Return(screenshot_paths)

\* names of files of a screenshots directory
FileNames ==
    { <<"1", ".", "P", "N", "G">>, <<"2", ".", "j", "p", "g">>, <<"3", ".", "P", "n", "g">>,
      <<"4", ".", "t", "x", "t">>, <<"5", ".", "j", "p", "e", "g">> }

\* directories: up to MaxFiles files with different names, in any order
Directories ==
    {<<>>} \cup {d \in SeqsUpTo(FileNames, MaxFiles) :
                    \A i, j \in 1..Len(d) : i # j => d[i] # d[j]}

InitDiscovery ==
    /\ directory \in Directories
    /\ case_sensitive \in BOOLEAN
    /\ discovered = Pending
    /\ ParserIdle /\ AssemblerIdle /\ BatchIdle
    /\ RequirementsIdle /\ PromptIdle /\ SessionIdle
    /\ LoopIdle /\ ProjectIdle /\ DedupIdle

DiscoverCall ==
    /\ discovered = Pending
    /\ discovered' = discover_screenshots(directory, case_sensitive)
    /\ UNCHANGED <<directory, case_sensitive, parserVars, assemblerVars, batchVars,
                   requirementsVars, promptVars, sessionVars, laterVars>>

NextDiscovery == DiscoverCall

DiscoverySpec == InitDiscovery /\ [][NextDiscovery]_vars

(***************************************************************************)
(* C17: discovery in a directory returns every file whose extension,       *)
(* compared without regard to letter case, is png, jpg, jpeg, bmp or tiff, *)
(* each exactly once and no other file, whether or not the platform        *)
(* matches file names case-sensitively.                                    *)
(***************************************************************************)
\* the characters after the last dot of the name
ExtensionOf(name) ==
    LET dots == {i \in 1..Len(name) : name[i] = "."}
    IN IF dots = {} THEN <<>> ELSE SubSeq(name, Max(dots) + 1, Len(name))

IsImageName(name) ==
    LowerStr(ExtensionOf(name)) \in
        {<<"p", "n", "g">>, <<"j", "p", "g">>, <<"j", "p", "e", "g">>,
         <<"b", "m", "p">>, <<"t", "i", "f", "f">>}

TimesFound(name) == Cardinality({i \in 1..Len(discovered.value) : discovered.value[i] = name})

C17_EachImageOnce ==
    discovered.kind # "pending" =>
        \A i \in 1..Len(directory) :
            TimesFound(directory[i]) = IF IsImageName(directory[i]) THEN 1 ELSE 0




(***************************************************************************)
(* core/parsers/screenshots.py: create_vision_prompt (lines 97-151).       *)
(*                                                                         *)
(* The prompt is the sequence of its lines.  additional_context is a text  *)
(* (the sequence of its lines, one empty line when it is ''); a category   *)
(* of test_types is one token.  The brackets "(" and ")" are tokens of     *)
(* their own, and so is the code fence of three backquotes, "fence".       *)
(***************************************************************************)
\* the template up to {test_types_str} (lines 109-111)
prompt_head ==
    << <<"You", " ", "are", " ", "a", " ", "test", " ", "case", " ",
         "generator", ".", " ", "Analyze", " ", "the", " ",
         "provided", " ", "screenshot", " ", "and", " ",
         "generate", " ", "comprehensive", " ", "test", " ",
         "cases", ".">>,
       <<>>,
       <<"**Test", " ", "Case", " ", "Types", " ", "to", " ",
         "Generate:**">> >>

\* the template between the two fields (lines 113-132)
prompt_body ==
    << <<>>,
       <<"**Instructions:**">>,
       <<"1", ".", " ", "Identify", " ", "all", " ", "interactive", " ",
         "elements", " ", "(", "buttons,", " ", "inputs,", " ",
         "dropdowns,", " ", "links,", " ", "etc", ".", ")">>,
       <<"2", ".", " ", "Identify", " ", "all", " ", "data", " ",
         "fields", " ", "and", " ", "their", " ", "constraints">>,
       <<"3", ".", " ", "Identify", " ", "user", " ", "flows", " ",
         "and", " ", "navigation", " ", "paths">>,
       <<"4", ".", " ", "Identify", " ", "potential", " ", "error", " ",
         "states", " ", "and", " ", "edge", " ", "cases">>,
       <<"5", ".", " ", "Generate", " ", "test", " ", "cases", " ",
         "covering", " ", "functional,", " ", "boundary,", " ",
         "negative,", " ", "and", " ", "security", " ", "scenarios">>,
       <<>>,
       <<"**Output", " ", "Format:**">>,
       <<"For", " ", "each", " ", "test", " ", "case,", " ", "provide:">>,
       <<"-", " ", "Test", " ", "Case", " ", "ID", " ", "(", "format:",
         " ", "TC-", "XXX", ")">>,
       <<"-", " ", "Title", " ", "(", "descriptive", " ", "and", " ",
         "specific", ")">>,
       <<"-", " ", "Test", " ", "Type", " ", "(",
         "FUNC/BOUND/NEG/PERM/SEC/PERF/", "A11Y", ")">>,
       <<"-", " ", "Priority", " ", "(", "P0", "/", "P1", "/", "P2", "/",
         "P3", ")">>,
       <<"-", " ", "Preconditions", " ", "(", "if", " ", "any", ")">>,
       <<"-", " ", "Test", " ", "Steps", " ", "(", "numbered", " ",
         "list", ")">>,
       <<"-", " ", "Expected", " ", "Result">>,
       <<"-", " ", "Covered", " ", "Elements", " ", "(", "list", " ",
         "of", " ", "UI", " ", "elements", " ", "tested", ")">>,
       <<>>,
       <<"**Additional", " ", "Context:**">> >>

\* the template after {additional_context} (lines 134-149)
prompt_tail ==
    << <<>>,
       <<"**Example", " ", "Output:**">>,
       <<"fence">>,
       <<"TC-", "0", "0", "1", ":", " ", "User", " ", "Login", " ", "-",
         " ", "Valid", " ", "Credentials">>,
       <<"Type:", " ", "FUNC">>,
       <<"Priority:", " ", "P0">>,
       <<"Preconditions:", " ", "User", " ", "is", " ", "on", " ",
         "login", " ", "page">>,
       <<"Steps:">>,
       <<"1", ".", " ", "Enter", " ", "valid", " ", "username", " ",
         "in", " ", "username", " ", "field">>,
       <<"2", ".", " ", "Enter", " ", "valid", " ", "password", " ",
         "in", " ", "password", " ", "field">>,
       <<"3", ".", " ", "Click", " ", "login", " ", "button">>,
       <<"Expected Result:", " ", "User", " ", "is", " ", "successfully",
         " ", "logged", " ", "in", " ", "and", " ", "redirected",
         " ", "to", " ", "dashboard">>,
       <<"Covered Elements:", " ", "username", " ", "field,", " ",
         "password", " ", "field,", " ", "login", " ", "button">>,
       <<"fence">>,
       <<>>,
       <<"Please", " ", "analyze", " ", "the", " ", "screenshot", " ",
         "and", " ", "generate", " ", "test", " ", "cases", " ",
         "following", " ", "this", " ", "format", ".">> >>

\* the categories one after the other, separated by one blank
join_with_blank(test_type_list) == JoinBlank([i \in 1..Len(test_type_list) |-> <<test_type_list[i]>>])

\* ", ".join(test_types)
RECURSIVE join_with_comma(_)
join_with_comma(test_type_list) ==
    IF test_type_list = <<>> THEN <<>>
    ELSE IF Len(test_type_list) = 1 THEN <<test_type_list[1]>>
    ELSE <<test_type_list[1], ",", " ">> \o join_with_comma(Tail(test_type_list))

create_vision_prompt(test_type_list, context) ==
    prompt_head \o <<join_with_comma(test_type_list)>> \o prompt_body \o context \o prompt_tail

(***************************************************************************)
(* Specification of the prompt builder: create_vision_prompt is called up  *)
(* to MaxPromptCalls times with the same arguments, and the example of the *)
(* first prompt is handed to the response parser.                          *)
(***************************************************************************)
\* the lines between the last two code fences of the prompt
ExampleOutput(prompt) ==
    LET fences == {i \in 1..Len(prompt) : prompt[i] = <<"fence">>}
        close == Max(fences)
        open == Max(fences \ {close})
    IN SubSeq(prompt, open + 1, close - 1)

\* contexts: '', one line, two lines
Contexts ==
    { <<EmptyStr>>,
      <<<<"Login", " ", "page", " ", "of", " ", "the", " ", "shop">>>>,
      <<<<"v", "2", ".">>, <<" ", "Use", " ", "the", " ", "staging", " ", "data">>>> }

InitPrompt ==
    /\ test_types \in {<<>>} \cup SeqsUpTo(TestCaseType, MaxTypes)
    /\ additional_context \in Contexts
    /\ prompts = <<>>
    /\ ParserIdle /\ AssemblerIdle /\ BatchIdle
    /\ RequirementsIdle /\ SessionIdle /\ DiscoveryIdle
    /\ LoopIdle /\ ProjectIdle /\ DedupIdle

CreatePromptCall ==
    /\ Len(prompts) < MaxPromptCalls
    /\ prompts' = Append(prompts, create_vision_prompt(test_types, additional_context))
    /\ UNCHANGED <<test_types, additional_context, parserVars, assemblerVars, batchVars,
                   requirementsVars, sessionVars, discoveryVars, laterVars>>

ParseExampleCall ==
    /\ prompts # <<>>
    /\ parse = Pending
    /\ response_text' = ExampleOutput(prompts[1])
    /\ parse' = parse_test_cases_from_response(ExampleOutput(prompts[1]))
    /\ UNCHANGED <<promptVars, assemblerVars, batchVars,
                   requirementsVars, sessionVars, discoveryVars, laterVars>>

NextPrompt == CreatePromptCall \/ ParseExampleCall

PromptSpec == InitPrompt /\ [][NextPrompt]_vars



(***************************************************************************)
(* Two parse_test_cases_from_response calls on one ScreenshotParser, run   *)
(* one after the other or interleaved line by line (two threads that share *)
(* the instance).  Each call keeps test_cases, current_case, current_steps *)
(* and in_steps in a frame.                                                *)
(***************************************************************************)
SessionCalls == {1, 2}

\* the locals kept in one place for all calls of the instance
frame_of_instance(c) == 1

\* lines 224-229 bind local names: each invocation has a frame of its own
frame_of_call(c) == c

SessionTexts == SeqsUpTo(StepLines, MaxSessionLines)

InitSession ==
    /\ session_texts \in SessionTexts \X SessionTexts
    /\ pc = <<0, 0>>
    /\ locals = <<ParseStart, ParseStart>>
    /\ results = <<Pending, Pending>>
    /\ ParserIdle /\ AssemblerIdle /\ BatchIdle
    /\ RequirementsIdle /\ PromptIdle /\ DiscoveryIdle
    /\ LoopIdle /\ ProjectIdle /\ DedupIdle

\* the call is entered: the assignments of lines 224-229
BeginCall(c) ==
    /\ pc[c] = 0
    /\ locals' = [locals EXCEPT ![frame_of_call(c)] = ParseStart]
    /\ pc' = [pc EXCEPT ![c] = 1]
    /\ UNCHANGED <<session_texts, results, parserVars, assemblerVars, batchVars,
                   requirementsVars, promptVars, discoveryVars, laterVars>>

\* one iteration of the loop over the lines (lines 231-271)
LineStep(c) ==
    /\ pc[c] \in 1..Len(session_texts[c])
    /\ locals' = [locals EXCEPT ![frame_of_call(c)] = ParseLine(@, session_texts[c][pc[c]])]
    /\ pc' = [pc EXCEPT ![c] = @ + 1]
    /\ UNCHANGED <<session_texts, results, parserVars, assemblerVars, batchVars,
                   requirementsVars, promptVars, discoveryVars, laterVars>>

\* after the loop: the save of the last record and the return (lines 273-280)
ReturnCall(c) ==
    /\ pc[c] = Len(session_texts[c]) + 1
    /\ LET st == locals[frame_of_call(c)]
           final == IF st.exc # "none" THEN st ELSE SaveIfOpen(st)
       IN results' = [results EXCEPT ![c] =
              IF final.exc # "none" THEN Raise(final.exc) ELSE Return(final.test_cases)]
    /\ pc' = [pc EXCEPT ![c] = @ + 1]
    /\ UNCHANGED <<session_texts, locals, parserVars, assemblerVars, batchVars,
                   requirementsVars, promptVars, discoveryVars, laterVars>>

NextSession == \E c \in SessionCalls : BeginCall(c) \/ LineStep(c) \/ ReturnCall(c)

SessionSpec == InitSession /\ [][NextSession]_vars

(***************************************************************************)
(* C19: parsing is stateless between invocations: the result of a call on  *)
(* a text is the result of parsing that text alone, whether another call   *)
(* on the same instance ran before it or is interleaved with it; no open   *)
(* record, collected step or step mode passes from one call into another.  *)
(***************************************************************************)
C19_StatelessBetweenCalls ==
    \A c \in SessionCalls :
        /\ results[c].kind # "pending" =>
               results[c] = parse_test_cases_from_response(session_texts[c])
        /\ pc[c] = 1 => locals[frame_of_call(c)] = ParseStart

\* a call returned no record for a text with a numbered line while the
\* other call, not yet returned, was in step mode inside an open record
C19_Witness ==
    \E c, o \in SessionCalls :
        /\ c # o
        /\ results[c] = Return(<<>>)
        /\ \E i \in 1..Len(session_texts[c]) : IsNumbered(session_texts[c][i])
        /\ pc[o] \in 2..(Len(session_texts[o]) + 1)
        /\ results[o] = Pending
        /\ locals[frame_of_call(o)].current_case # {}
        /\ locals[frame_of_call(o)].in_steps
(***************************************************************************)
(* Vocabulary of the claims about the prompt.                              *)
(***************************************************************************)
TypesHeader == <<"**Test", " ", "Case", " ", "Types", " ", "to", " ",
                 "Generate:**">>
FormatHeader == <<"**Output", " ", "Format:**">>
ContextHeader == <<"**Additional", " ", "Context:**">>
ExampleHeader == <<"**Example", " ", "Output:**">>

IndexOf(s, t) == Min({i \in 1..Len(s) : s[i] = t})

\* the lines "- <field> (<note>)" of the output format section
FormatLines(prompt) ==
    LET h == IndexOf(prompt, FormatHeader)
        end == Min({i \in (h + 1)..Len(prompt) : prompt[i] = <<>>})
    IN {prompt[i] : i \in {j \in (h + 1)..(end - 1) :
                              Len(prompt[j]) > 2 /\ prompt[j][1] = "-" /\ prompt[j][2] = " "}}

\* the name of the field a format line asks for
FieldName(line) ==
    IF Contains(line, "(") THEN SubSeq(line, 3, IndexOf(line, "(") - 2)
    ELSE SubSeq(line, 3, Len(line))

\* the labels of the parser, by the words they are made of
LabelWords ==
    { <<<<"Title">>, "Title:">>, <<<<"Type">>, "Type:">>,
      <<<<"Priority">>, "Priority:">>, <<<<"Preconditions">>, "Preconditions:">>,
      <<<<"Steps">>, "Steps:">>,
      <<<<"Expected", " ", "Result">>, "Expected Result:">>,
      <<<<"Covered", " ", "Elements">>, "Covered Elements:">> }

\* the tokens of "<name>:"
WithColon(name) ==
    LET hits == {<<k, l>> \in (1..Len(name)) \X LabelWords : SubSeq(name, k, Len(name)) = l[1]}
        hit == CHOOSE h \in hits : \A o \in hits : h[1] <= o[1]
    IN IF hits = {} THEN name \o <<":">>
       ELSE SubSeq(name, 1, hit[1] - 1) \o <<hit[2][2]>>

\* a reply line that gives the field as the format line asks for it: the
\* value in the stated format when the line states one, "<name>: v" otherwise
FieldSample(line) ==
    IF Contains(line, "format:")
    THEN SubSeq(line, IndexOf(line, "format:") + 2, IndexOf(line, ")") - 1)
    ELSE WithColon(FieldName(line)) \o <<" ", "v">>

\* the parser acts on the line: alone it opens a record, or inside an open
\* record it changes the record
Recognized(line) ==
    LET opened == ParseLine(ParseStart, <<"TC-", "1">>)
    IN ParseLine(ParseStart, line).current_case # {} \/ ParseLine(opened, line) # opened

(***************************************************************************)
(* C18: the prompt and the parser are in lockstep: the example record of   *)
(* the prompt parses to exactly one record whose title, type, priority,    *)
(* preconditions, steps, expected result and covered elements are those    *)
(* the example shows, and every field the output format of the prompt asks *)
(* for is recognized by a label of the parser.                             *)
(***************************************************************************)
C18_PromptParserLockstep ==
    /\ (prompts # <<>> /\ parse.kind # "pending") =>
        /\ parse.kind = "return"
        /\ Len(parse.value) = 1
        /\ LET tc == parse.value[1]
           IN /\ tc.title = <<"User", " ", "Login", " ", "-", " ", "Valid",
                            " ", "Credentials">>
              /\ tc.test_type = "FUNC"
              /\ tc.priority = "P0"
              /\ tc.preconditions = <<<<"User", " ", "is", " ", "on", " ",
                                    "login",
                                    " ",
                                    "page">>>>
              /\ tc.steps =
                    << <<"Enter", " ", "valid", " ", "username", " ",
                         "in", " ", "username",
                         " ", "field">>,
                       <<"Enter", " ", "valid", " ", "password", " ",
                         "in", " ", "password",
                         " ", "field">>,
                       <<"Click", " ", "login", " ", "button">> >>
              /\ tc.expected_result =
                    <<"User", " ", "is", " ", "successfully", " ",
                      "logged", " ", "in", " ",
                      "and", " ", "redirected", " ",
                      "to", " ", "dashboard">>
              /\ tc.metadata.covered_elements =
                    <<"username", " ", "field,", " ", "password", " ",
                      "field,", " ", "login", " ",
                      "button">>
    /\ prompts # <<>> =>
        \A line \in FormatLines(prompts[1]) : Recognized(FieldSample(line))

(***************************************************************************)
(* C20: create_vision_prompt is a pure function of its arguments: calls    *)
(* with the same category list and context return identical prompts, the   *)
(* prompt holds the categories joined by ', ' and the context verbatim,    *)
(* and an empty context gives an empty context section, not an error.      *)
(***************************************************************************)
CommaSeparated(l) ==
    IF l = <<>> THEN <<>>
    ELSE [k \in 1..(3 * Len(l) - 2) |->
             IF k % 3 = 1 THEN l[(k + 2) \div 3] ELSE IF k % 3 = 2 THEN "," ELSE " "]

LoopLines ==
    { <<"TC-", "1">>,
      <<"TC-", "2">>,
      <<"Title:", " ", "a">>,
      <<" ", "Title:", " ", "b", " ", "Title:", " ", "c">>,
      <<"Type:", " ", "NEG">>,
      <<"Priority:", " ", "P0">>,
      <<"Preconditions:", " ", "p">>,
      <<"Steps:">>,
      <<"1", ".", " ", "a">>,
      <<"2", " ", "b">>,
      <<"x">>,
      <<"Expected Result:", " ", "r">>,
      <<"Covered Elements:", " ", "e">> }

InitLoop ==
    /\ loop_locals = ParseStart
    /\ loop_line = <<>>
    /\ loop_count = 0
    /\ loop_result = Pending
    /\ ParserIdle /\ AssemblerIdle /\ BatchIdle
    /\ RequirementsIdle /\ PromptIdle /\ SessionIdle /\ DiscoveryIdle
    /\ ProjectIdle /\ DedupIdle

\* one iteration of the loop over the lines (lines 231-271)
LoopLine ==
    /\ loop_result = Pending
    /\ loop_count < MaxLoopLines
    /\ \E line \in LoopLines :
        /\ loop_line' = line
        /\ loop_locals' = ParseLine(loop_locals, line)
    /\ loop_count' = loop_count + 1
    /\ UNCHANGED <<loop_result, parserVars, assemblerVars, batchVars,
                   requirementsVars, promptVars, sessionVars, discoveryVars,
                   projectVars, dedupVars>>

\* end of the text: the save of the last record and the return (lines 273-280)
LoopReturn ==
    /\ loop_result = Pending
    /\ LET final == IF loop_locals.exc # "none" THEN loop_locals ELSE SaveIfOpen(loop_locals)
       IN loop_result' =
              IF final.exc # "none" THEN Raise(final.exc) ELSE Return(final.test_cases)
    /\ UNCHANGED <<loop_locals, loop_line, loop_count, parserVars, assemblerVars, batchVars,
                   requirementsVars, promptVars, sessionVars, discoveryVars,
                   projectVars, dedupVars>>

NextLoop == LoopLine \/ LoopReturn

LoopSpec == InitLoop /\ [][NextLoop]_vars


(***************************************************************************)
(* Vocabulary of the claims about the loop                                 *)
(***************************************************************************)
ScalarLabels ==
    {"Title:", "Type:", "Priority:", "Preconditions:", "Expected Result:",
     "Covered Elements:"}

ScalarKey(label) ==
    CASE label = "Title:" -> "title"
      [] label = "Type:" -> "type"
      [] label = "Priority:" -> "priority"
      [] label = "Preconditions:" -> "preconditions"
      [] label = "Expected Result:" -> "expected_result"
      [] label = "Covered Elements:" -> "covered_elements"

IsScalarLine(raw) == Strip(raw) # <<>> /\ Strip(raw)[1] \in ScalarLabels

\* the leading label of a scalar line and what follows it, trimmed
LabelOf(raw) == Strip(raw)[1]
Remainder(raw) == Strip(Tail(Strip(raw)))

\* the label stands a second time in the remainder of the line
RepeatsLabel(raw) == Contains(Remainder(raw), LabelOf(raw))

\* the loop has just taken a line
LineTaken == loop_count' = loop_count + 1

RecordOpen(st) == DictHas(st.current_case, "id")

(***************************************************************************)
(* C21: after a line that starts with a scalar label, the field of the     *)
(* open record holds exactly the remainder of the line after the leading   *)
(* label, trimmed, also when the remainder holds the label again.          *)
(***************************************************************************)
C21_ValueIsRemainder ==
    (loop_count > 0 /\ IsScalarLine(loop_line) /\ RecordOpen(loop_locals))
        => DictGet(loop_locals.current_case, ScalarKey(LabelOf(loop_line)), <<"unset">>)
               = Remainder(loop_line)

\* the same, for the lines whose remainder does not hold the label again
C21_ValueIsRemainderUnlessRepeated ==
    (loop_count > 0 /\ IsScalarLine(loop_line) /\ RecordOpen(loop_locals)
        /\ ~RepeatsLabel(loop_line))
        => DictGet(loop_locals.current_case, ScalarKey(LabelOf(loop_line)), <<"unset">>)
               = Remainder(loop_line)


\* the entry a numbered line stands for: the text after its first '.',
\* trimmed, or the whole trimmed line when it holds no '.'
FirstDot(line) == Min({i \in 1..Len(line) : line[i] = "."})
StepEntry(raw) ==
    LET line == Strip(raw)
    IN IF \E i \in 1..Len(line) : line[i] = "."
       THEN Strip(SubSeq(line, FirstDot(line) + 1, Len(line)))
       ELSE line

(***************************************************************************)
(* C23: while steps are collected, a numbered line appends one entry (the  *)
(* trimmed text after its first '.', or the whole line when it has none)   *)
(* to the steps of the open record and touches nothing else; any other     *)
(* line that is not a marker appends nothing; a marker starts the new      *)
(* record with no steps and with step collection off.                      *)
(***************************************************************************)
C23_StepsOfOpenRecordOnly ==
    [][LineTaken =>
        IF IsMarker(loop_line')
        THEN /\ loop_locals'.current_steps = <<>>
             /\ ~loop_locals'.in_steps
        ELSE IF loop_locals.in_steps /\ IsNumbered(loop_line')
        THEN /\ loop_locals'.current_steps
                    = Append(loop_locals.current_steps, StepEntry(loop_line'))
             /\ loop_locals'.test_cases = loop_locals.test_cases
             /\ loop_locals'.current_case = loop_locals.current_case
        ELSE loop_locals'.current_steps = loop_locals.current_steps]_vars

\* two numbered lines, one with a dot and one without, stand in the steps
\* of the open record, behind a record that was closed with its own step
C23_Witness ==
    /\ RecordOpen(loop_locals)
    /\ loop_locals.in_steps
    /\ loop_locals.current_steps = <<<<"a">>, <<"2", " ", "b">>>>
    /\ loop_line = <<"2", " ", "b">>

\* a numbered line between a marker and its own 'Steps:' was not collected
C23_WitnessBeforeSteps ==
    /\ RecordOpen(loop_locals)
    /\ ~loop_locals.in_steps
    /\ loop_locals.current_steps = <<>>
    /\ Len(loop_locals.test_cases) = 1
    /\ IsNumbered(loop_line)

(***************************************************************************)
(* C24: an 'Expected Result:' line ends step collection, and a numbered    *)
(* line after it is not collected until a new 'Steps:' line; every other   *)
(* scalar label leaves step collection as it was.                          *)
(***************************************************************************)
C24_ExpectedResultEndsSteps ==
    [][LineTaken =>
        /\ IsExpectedLabel(loop_line') => ~loop_locals'.in_steps
        /\ (IsScalarLine(loop_line') /\ ~IsExpectedLabel(loop_line'))
               => loop_locals'.in_steps = loop_locals.in_steps
        /\ IsStepsLabel(loop_line') => loop_locals'.in_steps
        /\ (IsNumbered(loop_line') \/ Strip(loop_line') = <<"x">>)
               => loop_locals'.in_steps = loop_locals.in_steps
        /\ (~loop_locals.in_steps /\ IsNumbered(loop_line'))
               => loop_locals'.current_steps = loop_locals.current_steps]_vars

\* a numbered line after 'Expected Result:' was left out of the steps
C24_Witness ==
    /\ RecordOpen(loop_locals)
    /\ ~loop_locals.in_steps
    /\ DictHas(loop_locals.current_case, "expected_result")
    /\ loop_locals.current_steps = <<<<"a">>>>
    /\ loop_line = <<"2", " ", "b">>

\* step collection is still on after a scalar label other than
\* 'Expected Result:'
C24_WitnessOtherLabel ==
    /\ RecordOpen(loop_locals)
    /\ loop_locals.in_steps
    /\ IsScalarLine(loop_line)
    /\ loop_count > 0

(***************************************************************************)
(* C25: a scalar label line overwrites the field of that label in the open *)
(* record and leaves every other field as it was, so the last line of a    *)
(* label wins; a marker opens a record that holds its id and nothing of    *)
(* the record before it.                                                   *)
(***************************************************************************)
C25_LastWriteWins ==
    [][LineTaken =>
        /\ IsMarker(loop_line')
               => loop_locals'.current_case = {<<"id", Strip(loop_line')>>}
        /\ IsScalarLine(loop_line')
               => /\ \A p \in loop_locals.current_case :
                        p[1] # ScalarKey(LabelOf(loop_line'))
                            => p \in loop_locals'.current_case
                  /\ \A p \in loop_locals'.current_case :
                        p[1] # ScalarKey(LabelOf(loop_line'))
                            => p \in loop_locals.current_case
                  /\ Cardinality({p \in loop_locals'.current_case :
                                     p[1] = ScalarKey(LabelOf(loop_line'))}) = 1
                  /\ ~RepeatsLabel(loop_line')
                         => <<ScalarKey(LabelOf(loop_line')), Remainder(loop_line')>>
                                \in loop_locals'.current_case]_vars

\* the record opened by the second marker holds nothing of the first
C25_Witness ==
    /\ loop_locals.current_case = {<<"id", <<"TC-", "2">>>>}
    /\ Len(loop_locals.test_cases) = 1
    /\ loop_locals.test_cases[1].title = <<"a">>


(***************************************************************************)
(* Replies with two different markers, parsed whole: which records the     *)
(* call returns, and in which order.                                       *)
(***************************************************************************)
OrderLines ==
    { <<"TC-", "1">>,
      <<"TC-", "2">>,
      <<"Title:", " ", "a">>,
      <<"Steps:">>,
      <<"1", ".", " ", "a">> }

InitOrder ==
    /\ response_text \in SeqsUpTo(OrderLines, MaxOrderLines)
    /\ parse = Pending
    /\ AssemblerIdle
    /\ BatchIdle
    /\ RequirementsIdle /\ PromptIdle /\ SessionIdle /\ DiscoveryIdle
    /\ LoopIdle /\ ProjectIdle /\ DedupIdle

OrderSpec == InitOrder /\ [][Next]_vars

\* the lines of the record that marker line m opens: up to the next marker
\* or the end of the text
RecordEnd(text, m) ==
    IF \E n \in MarkerLines(text) : n > m
    THEN Min({n \in MarkerLines(text) : n > m}) - 1
    ELSE Len(text)

\* the numbered lines of that record that stand after its 'Steps:'
StepsOf(text, m) ==
    {j \in (m + 1)..RecordEnd(text, m) :
        /\ IsNumbered(text[j])
        /\ j \in NumberedAfter(text, m)}

ValidMarkers(text) == {m \in MarkerLines(text) : StepsOf(text, m) # {}}

\* the n-th valid marker in the order of the lines
NthValid(text, n) ==
    CHOOSE m \in ValidMarkers(text) :
        Cardinality({v \in ValidMarkers(text) : v <= m}) = n

\* the returned records that a marker opened
MarkerRecords == SelectSeq(parse.value, LAMBDA tc : tc.id # EmptyStr)

(***************************************************************************)
(* C22: the records that markers opened come back one per marker whose     *)
(* record has collected a step, in the order of the markers, each with the *)
(* id of its marker and the steps of its own lines; the record open at the *)
(* end of the text is among them.                                          *)
(***************************************************************************)
C22_OneRecordPerValidMarker ==
    Returned =>
        /\ Len(MarkerRecords) = Cardinality(ValidMarkers(response_text))
        /\ \A n \in 1..Len(MarkerRecords) :
              /\ MarkerRecords[n].id = Strip(response_text[NthValid(response_text, n)])
              /\ Len(MarkerRecords[n].steps)
                     = Cardinality(StepsOf(response_text, NthValid(response_text, n)))

\* two records come back in marker order, the first closed by the second
\* marker and the second by the end of the text
C22_Witness ==
    /\ Returned
    /\ Len(parse.value) = 2
    /\ parse.value[1].id = <<"TC-", "2">>
    /\ parse.value[2].id = <<"TC-", "1">>
    /\ IsNumbered(response_text[Len(response_text)])


\* the ID lines of a text, and the n-th of them in line order
IdLines(text) == {i \in 1..Len(text) : IsIdLine(text[i])}

\* the last line before the next ID line after line i, or the last line
NextIdOrEnd(text, i) ==
    IF \E j \in IdLines(text) : j > i
    THEN Min({j \in IdLines(text) : j > i}) - 1
    ELSE Len(text)

NonBlank(lines) == SelectSeq(lines, LAMBDA l : l # EmptyStr)

(***************************************************************************)
(* C28: extract_requirements_from_text returns one record per non-blank    *)
(* line that holds an identifier match anywhere in it, whatever the case,  *)
(* in line order; the record of an ID line holds that line and the         *)
(* non-blank lines up to the next ID line, so an ID line always closes the *)
(* open requirement, and the non-ID lines before the first ID line are in  *)
(* no record.                                                              *)
(***************************************************************************)
C28_OneRecordPerIdLine ==
    Extracted =>
        /\ Len(extracted.value) = Cardinality(IdLines(req_text))
        /\ \A n \in 1..Len(extracted.value) :
              LET r == extracted.value[n]
                  i == r.metadata.line_number
              IN /\ i \in IdLines(req_text)
                 /\ Cardinality({j \in IdLines(req_text) : j <= i}) = n
                 /\ r.description =
                        JoinBlank(NonBlank(StrippedLines(req_text, i,
                                                         NextIdOrEnd(req_text, i))))

\* an ID line, a continuation line and a line with a lower-case identifier:
\* the third line closes the first requirement and opens the second
C28_Witness ==
    /\ Extracted
    /\ Len(req_text) = 3
    /\ IsIdLine(req_text[1])
    /\ req_text[2] = <<"b">>
    /\ req_text[3] = <<" ", "r", "e", "q", "_", "a", "b", "_", "7", " ">>
    /\ Len(extracted.value) = 2
    /\ extracted.value[2].metadata.line_number = 3

\* the line before the first ID line is in no record
C28_WitnessDropped ==
    /\ Extracted
    /\ Len(req_text) = 2
    /\ req_text[1] = <<"b">>
    /\ IsIdLine(req_text[2])
    /\ Len(extracted.value) = 1


(***************************************************************************)
(* core/project.py: ProjectManager.  A Project object is named by its      *)
(* place in the order of creation; the manager's state is its current      *)
(* project, the Project objects and the file system under it.  Dates, ids  *)
(* and log lines are left out.                                             *)
(***************************************************************************)
\* Project(name=..., description=..., created_by=...): the lists default
\* to empty (models.py lines 170-181)
EmptyProject ==
    [requirements |-> <<>>, components |-> <<>>, flows |-> <<>>, test_suites |-> <<>>]

\* TestSuite(name=..., test_cases=[...], created_by="testcase_generator")
TestSuite(test_cases) == [test_cases |-> test_cases, created_by |-> "testcase_generator"]

\* a file or a directory of the file system
FilePath(dir, name, ext) == [dir |-> dir, name |-> name, ext |-> ext]
Directory(dir) ==
    [dir |-> dir, name |-> "", ext |-> "", kind |-> "dir", project |-> None, count |-> 0]
File(path, kind, project, count) ==
    [dir |-> path.dir, name |-> path.name, ext |-> path.ext, kind |-> kind,
     project |-> project, count |-> count]

AtPath(f, path) == f.dir = path.dir /\ f.name = path.name /\ f.ext = path.ext

\* file_path.exists()
Exists(fs, path) == \E f \in fs : AtPath(f, path)

\* path.parent.mkdir(parents=True, exist_ok=True)
Mkdir(fs, dir) == fs \cup {Directory(dir)}

\* open(path, 'w') and the writes: the file is replaced
WriteFile(fs, f) == {g \in fs : ~AtPath(g, FilePath(f.dir, f.name, f.ext))} \cup {f}

\* the state of the manager
Manager == [current_project |-> current_project, projects |-> projects, files |-> files]

Outcome(m, out) == [m |-> m, out |-> out]

\* "project or self.current_project", with the first project instead
ProjectOr_first(m, project) ==
    IF project # None THEN project
    ELSE IF m.projects # <<>> THEN <<1>> ELSE None

\* project = project or self.current_project
ProjectOr(m, project) == IF project # None THEN project ELSE m.current_project

\* create_project (lines 31-55)
create_project(m) ==
    LET new == Len(m.projects) + 1
    IN Outcome([m EXCEPT !.projects = Append(@, EmptyProject),
                         !.current_project = <<new>>],
               Return(<<new>>))

\* load_project (lines 57-84)
load_project(m, file_path) ==
    IF ~Exists(m.files, file_path) THEN Outcome(m, Raise("FileNotFoundError"))
    ELSE LET f == CHOOSE g \in m.files : AtPath(g, file_path)
             new == Len(m.projects) + 1
         IN Outcome([m EXCEPT !.projects = Append(@, f.project[1]),
                              !.current_project = <<new>>],
                    Return(<<new>>))

\* f"{safe_name}_project.json" in config.output_dir
AutoProjectPath == FilePath("output", "demo_project", "json")

\* save_project (lines 86-119)
save_project(m, project, file_path) ==
    LET p == ProjectOr(m, project) IN
    IF p = None THEN Outcome(m, Raise("ValueError"))
    ELSE LET path == IF file_path = None THEN AutoProjectPath ELSE file_path[1]
         IN Outcome([m EXCEPT !.files =
                        WriteFile(Mkdir(@, path.dir),
                                  File(path, "project", <<m.projects[p[1]]>>, 0))],
                    Return(path))

\* the suite holds one list that every call extends
add_test_cases_one_suite(m, test_cases, project) ==
    LET p == ProjectOr(m, project) IN
    IF p = None THEN Outcome(m, Raise("ValueError"))
    ELSE LET ids == [i \in 1..Len(test_cases) |-> test_cases[i].id]
             suites == m.projects[p[1]].test_suites
         IN Outcome([m EXCEPT !.projects[p[1]].test_suites =
                        IF suites = <<>> THEN <<TestSuite(ids)>>
                        ELSE <<TestSuite(suites[1].test_cases \o ids)>>],
                    Return(None))

\* add_test_cases (lines 121-145)
add_test_cases(m, test_cases, project) ==
    LET p == ProjectOr(m, project) IN
    IF p = None THEN Outcome(m, Raise("ValueError"))
    ELSE Outcome([m EXCEPT !.projects[p[1]].test_suites =
                     Append(@, TestSuite([i \in 1..Len(test_cases) |-> test_cases[i].id]))],
                 Return(None))

\* add_requirements (lines 147-161)
add_requirements(m, requirements, project) ==
    LET p == ProjectOr(m, project) IN
    IF p = None THEN Outcome(m, Raise("ValueError"))
    ELSE Outcome([m EXCEPT !.projects[p[1]].requirements = @ \o requirements],
                 Return(None))

\* add_components (lines 163-177)
add_components(m, components, project) ==
    LET p == ProjectOr(m, project) IN
    IF p = None THEN Outcome(m, Raise("ValueError"))
    ELSE Outcome([m EXCEPT !.projects[p[1]].components = @ \o components],
                 Return(None))

\* get_all_test_cases (lines 179-194): there is no store of test cases to
\* fetch the ids from, and the method returns the empty list
get_all_test_cases(m, project) ==
    LET p == ProjectOr(m, project) IN
    IF p = None THEN Outcome(m, Return(<<>>))
    ELSE Outcome(m, Return(<<>>))

\* sum(len(suite.test_cases) for suite in project.test_suites)
RECURSIVE SumOfSuites(_)
SumOfSuites(suites) ==
    IF suites = <<>> THEN 0 ELSE Len(Head(suites).test_cases) + SumOfSuites(Tail(suites))

\* get_project_summary (lines 196-220); the items name, description,
\* created_at, updated_at and created_by are left out
get_project_summary(m, project) ==
    LET p == ProjectOr(m, project) IN
    IF p = None THEN Outcome(m, Return({}))
    ELSE LET proj == m.projects[p[1]]
         IN Outcome(m, Return({<<"requirements_count", Len(proj.requirements)>>,
                               <<"components_count", Len(proj.components)>>,
                               <<"flows_count", Len(proj.flows)>>,
                               <<"test_suites_count", Len(proj.test_suites)>>,
                               <<"test_cases_count", SumOfSuites(proj.test_suites)>>}))

\* _export_to_json (lines 266-275): 'count': len(test_cases)
export_to_json(fs, test_cases, output_path) ==
    WriteFile(fs, File(output_path, "json", None, Len(test_cases)))

\* _export_to_csv (lines 277-303): the file is opened, and so created,
\* before the test for an empty list
export_to_csv(fs, test_cases, output_path) ==
    WriteFile(fs, File(output_path, "csv", None, Len(test_cases)))

\* _export_to_excel (lines 305-334): with pandas nothing is written for an
\* empty list; without pandas the CSV export writes beside the path
export_to_excel(fs, test_cases, output_path, pandas) ==
    IF pandas
    THEN IF test_cases = <<>> THEN fs
         ELSE WriteFile(fs, File(output_path, "excel", None, Len(test_cases)))
    ELSE export_to_csv(fs, test_cases, [output_path EXCEPT !.ext = "csv"])

\* export_test_cases (lines 222-264)
export_test_cases(m, project, output_format, output_path, pandas) ==
    LET p == ProjectOr(m, project) IN
    IF p = None THEN Outcome(m, Raise("ValueError"))
    ELSE LET path == IF output_path = None
                     THEN FilePath("output", "demo_test_cases", output_format)
                     ELSE output_path[1]
             made == Mkdir(m.files, path.dir)
             test_cases == get_all_test_cases(m, p).out.value
         IN IF output_format = "json"
            THEN Outcome([m EXCEPT !.files = export_to_json(made, test_cases, path)],
                         Return(path))
            ELSE IF output_format = "csv"
            THEN Outcome([m EXCEPT !.files = export_to_csv(made, test_cases, path)],
                         Return(path))
            ELSE IF output_format = "excel"
            THEN Outcome([m EXCEPT !.files = export_to_excel(made, test_cases, path, pandas)],
                         Return(path))
            ELSE Outcome([m EXCEPT !.files = made], Raise("ValueError"))

(***************************************************************************)
(* The calls a client makes on one ProjectManager, in any order            *)
(***************************************************************************)
\* the project argument: None, or one of the Project objects
ProjectArgs == {None} \cup {<<i>> : i \in 1..Len(projects)}

CaseLists == {<<>>, <<[id |-> "TC-1"]>>, <<[id |-> "TC-2"], [id |-> "TC-1"]>>}
RequirementLists == {<<[id |-> "REQ-1"]>>, <<[id |-> "REQ-1"], [id |-> "REQ-2"]>>}
ComponentLists == {<<[id |-> "C-1"]>>}

ProjectPaths == {AutoProjectPath, FilePath("saved", "p", "json")}
ExportPath == FilePath("exported", "generated_test_cases", "json")
Formats == {"json", "csv", "excel", "xml"}

\* the call returns or raises: the state it leaves and the record of it
Called(op, project, items, r) ==
    /\ calls_made < MaxCalls
    /\ calls_made' = calls_made + 1
    /\ current_project' = r.m.current_project
    /\ projects' = r.m.projects
    /\ files' = r.m.files
    /\ last_call' = <<[op |-> op, project |-> project, items |-> items, out |-> r.out]>>
    /\ UNCHANGED <<parserVars, assemblerVars, batchVars, requirementsVars, promptVars,
                   sessionVars, discoveryVars, loopVars, dedupVars>>

InitProject ==
    /\ ProjectIdle
    /\ ParserIdle /\ AssemblerIdle /\ BatchIdle
    /\ RequirementsIdle /\ PromptIdle /\ SessionIdle /\ DiscoveryIdle
    /\ LoopIdle /\ DedupIdle

CreateProject == Called("create_project", None, <<>>, create_project(Manager))

LoadProject ==
    \E path \in ProjectPaths :
        Called("load_project", None, <<>>, load_project(Manager, path))

SaveProject ==
    \E project \in ProjectArgs, file_path \in {None} \cup {<<p>> : p \in ProjectPaths} :
        Called("save_project", project, <<>>, save_project(Manager, project, file_path))

AddTestCases ==
    \E project \in ProjectArgs, test_cases \in CaseLists :
        Called("add_test_cases", project, test_cases,
               add_test_cases(Manager, test_cases, project))

AddRequirements ==
    \E project \in ProjectArgs, requirements \in RequirementLists :
        Called("add_requirements", project, requirements,
               add_requirements(Manager, requirements, project))

AddComponents ==
    \E project \in ProjectArgs, components \in ComponentLists :
        Called("add_components", project, components,
               add_components(Manager, components, project))

GetAllTestCases ==
    \E project \in ProjectArgs :
        Called("get_all_test_cases", project, <<>>, get_all_test_cases(Manager, project))

GetProjectSummary ==
    \E project \in ProjectArgs :
        Called("get_project_summary", project, <<>>, get_project_summary(Manager, project))

ExportTestCases ==
    \E project \in ProjectArgs, output_format \in Formats,
       output_path \in {None, <<ExportPath>>}, pandas \in BOOLEAN :
        Called("export_test_cases", project, <<>>,
               export_test_cases(Manager, project, output_format, output_path, pandas))

NextProject ==
    \/ CreateProject
    \/ LoadProject
    \/ SaveProject
    \/ AddTestCases
    \/ AddRequirements
    \/ AddComponents
    \/ GetAllTestCases
    \/ GetProjectSummary
    \/ ExportTestCases

ProjectSpec == InitProject /\ [][NextProject]_vars


(***************************************************************************)
(* Vocabulary of the claims about the ProjectManager                       *)
(***************************************************************************)
\* a call has just returned or raised, and the record of it
CallMade == calls_made' = calls_made + 1
ThisCall == last_call'[1]
LastCall == last_call[1]
Called_(op) == last_call # <<>> /\ LastCall.op = op

\* the project a call acts on: its argument, or the current project
TargetOf(call, current) == IF call.project # None THEN call.project ELSE current

\* the test case ids a project holds: one for every place of every suite
PlacesOf(project) ==
    UNION {{<<s, i>> : i \in 1..Len(project.test_suites[s].test_cases)} :
              s \in 1..Len(project.test_suites)}

IdsOf(items) == [i \in 1..Len(items) |-> items[i].id]

Count(summary, key) == DictGet(summary, key, -1)

\* what get_project_summary would report of a project
Reported(project) ==
    get_project_summary([current_project |-> None, projects |-> <<project>>, files |-> {}],
                        <<1>>).out.value

(***************************************************************************)
(* C26: get_project_summary reports the numbers of requirements,           *)
(* components, suites and test case ids the project holds at the time of   *)
(* the call; a project just created reports 0 for all of them; every       *)
(* add_test_cases(T) adds one suite that holds the ids of T in order, so   *)
(* test_suites_count grows by one and test_cases_count by len(T), and      *)
(* add_requirements and add_components grow their count by the length of   *)
(* their list.                                                             *)
(***************************************************************************)
C26_SummaryCounts ==
    [][CallMade =>
        LET call == ThisCall
            t == TargetOf(call, current_project)
        IN /\ (call.op = "get_project_summary" /\ t # None)
                  => LET project == projects'[t[1]]
                     IN /\ Count(call.out.value, "requirements_count")
                               = Len(project.requirements)
                        /\ Count(call.out.value, "components_count")
                               = Len(project.components)
                        /\ Count(call.out.value, "test_suites_count")
                               = Len(project.test_suites)
                        /\ Count(call.out.value, "test_cases_count")
                               = Cardinality(PlacesOf(project))
           /\ call.op = "create_project"
                  => \A key \in {"requirements_count", "components_count",
                                 "test_suites_count", "test_cases_count"} :
                         Count(Reported(projects'[call.out.value[1]]), key) = 0
           /\ (call.op = "add_test_cases" /\ t # None)
                  => LET before == projects[t[1]]
                         after == projects'[t[1]]
                     IN /\ after.test_suites
                               = Append(before.test_suites,
                                        [test_cases |-> IdsOf(call.items),
                                         created_by |-> "testcase_generator"])
                        /\ Count(Reported(after), "test_suites_count")
                               = Count(Reported(before), "test_suites_count") + 1
                        /\ Count(Reported(after), "test_cases_count")
                               = Count(Reported(before), "test_cases_count")
                                     + Len(call.items)
                        /\ Count(Reported(after), "requirements_count")
                               = Count(Reported(before), "requirements_count")
                        /\ Count(Reported(after), "components_count")
                               = Count(Reported(before), "components_count")
           /\ (call.op = "add_requirements" /\ t # None)
                  => LET before == projects[t[1]]
                         after == projects'[t[1]]
                     IN /\ after.requirements = before.requirements \o call.items
                        /\ Count(Reported(after), "requirements_count")
                               = Count(Reported(before), "requirements_count")
                                     + Len(call.items)
                        /\ Count(Reported(after), "test_cases_count")
                               = Count(Reported(before), "test_cases_count")
           /\ (call.op = "add_components" /\ t # None)
                  => LET before == projects[t[1]]
                         after == projects'[t[1]]
                     IN /\ after.components = before.components \o call.items
                        /\ Count(Reported(after), "components_count")
                               = Count(Reported(before), "components_count")
                                     + Len(call.items)
                        /\ Count(Reported(after), "test_cases_count")
                               = Count(Reported(before), "test_cases_count")]_vars

\* the summary of a project after two add_test_cases calls, of one and of
\* two test cases: two suites, three test cases
C26_Witness ==
    /\ Called_("get_project_summary")
    /\ LastCall.out.kind = "return"
    /\ Count(LastCall.out.value, "test_suites_count") = 2
    /\ Count(LastCall.out.value, "test_cases_count") = 3

(***************************************************************************)
(* C27: get_all_test_cases returns the test cases that were added to the   *)
(* project with add_test_cases, and export_test_cases exports exactly      *)
(* those: the count of the export is the number of test cases added.       *)
(***************************************************************************)
C27_AllAddedReturned ==
    (last_call # <<>> /\ TargetOf(LastCall, current_project) # None
        /\ LastCall.out.kind = "return")
        => LET project == projects[TargetOf(LastCall, current_project)[1]]
           IN /\ LastCall.op = "get_all_test_cases"
                     => Len(LastCall.out.value) = Cardinality(PlacesOf(project))
              /\ LastCall.op = "export_test_cases"
                     => \A f \in files :
                            AtPath(f, LastCall.out.value)
                                => f.count = Cardinality(PlacesOf(project))

(***************************************************************************)
(* C29: the current project is the project most recently created or        *)
(* loaded; a call without a project argument acts on the current project;  *)
(* when there is no current project and no argument, save_project,         *)
(* add_test_cases, add_requirements, add_components and export_test_cases  *)
(* raise ValueError and change nothing (no suite, no file, no directory),  *)
(* get_project_summary returns {} and get_all_test_cases returns [].       *)
(***************************************************************************)
C29_CurrentProject ==
    [][CallMade =>
        LET call == ThisCall
            adds == {"add_test_cases", "add_requirements", "add_components"}
        IN /\ IF call.op \in {"create_project", "load_project"} /\ call.out.kind = "return"
              THEN /\ Len(projects') = Len(projects) + 1
                   /\ current_project' = <<Len(projects')>>
              ELSE /\ current_project' = current_project
                   /\ Len(projects') = Len(projects)
           /\ (call.project = None /\ current_project # None /\ call.op \in adds)
                  => /\ call.out.kind = "return"
                     /\ projects'[current_project[1]] # projects[current_project[1]]
                     /\ \A i \in 1..Len(projects) :
                            i # current_project[1] => projects'[i] = projects[i]
           /\ (call.project = None /\ current_project # None /\ call.op = "save_project")
                  => \E f \in files' :
                         /\ AtPath(f, call.out.value)
                         /\ f.project = <<projects[current_project[1]]>>
           /\ (call.project = None /\ current_project = None)
                  => /\ call.op \in adds \cup {"save_project", "export_test_cases"}
                            => /\ call.out = Raise("ValueError")
                               /\ projects' = projects
                               /\ files' = files
                     /\ call.op = "get_project_summary" => call.out = Return({})
                     /\ call.op = "get_all_test_cases" => call.out = Return(<<>>)]_vars

\* with two projects, a call without argument has added a suite to the
\* second, the current one, and none to the first
C29_Witness ==
    /\ Called_("add_test_cases")
    /\ LastCall.project = None
    /\ Len(projects) = 2
    /\ current_project = <<2>>
    /\ projects[1].test_suites = <<>>
    /\ projects[2].test_suites # <<>>

\* without any project an export has raised and left no file or directory
C29_WitnessNoProject ==
    /\ Called_("export_test_cases")
    /\ LastCall.out = Raise("ValueError")
    /\ current_project = None
    /\ files = {}
    /\ calls_made > 1


(***************************************************************************)
(* core/generator.py: generate_comprehensive and                           *)
(* _remove_duplicate_test_cases.  A title is a string of characters; a     *)
(* test case is named by the source that made it and its place there (the  *)
(* code gives every test case a fresh uuid4).                              *)
(***************************************************************************)
\* the title is compared as it is
title_lower_exact(tc) == tc.title

\* title_lower = tc.title.lower().strip()
title_lower(tc) == Strip(LowerStr(tc.title))

\* the loop of _remove_duplicate_test_cases (lines 262-269)
RECURSIVE RemoveLoop(_, _, _)
RemoveLoop(test_cases, seen_titles, unique_cases) ==
    IF test_cases = <<>> THEN unique_cases
    ELSE LET tc == Head(test_cases) IN
         IF title_lower(tc) \notin seen_titles
         THEN RemoveLoop(Tail(test_cases), seen_titles \cup {title_lower(tc)},
                         Append(unique_cases, tc))
         ELSE RemoveLoop(Tail(test_cases), seen_titles, unique_cases)

\* _remove_duplicate_test_cases (lines 252-271)
remove_duplicate_test_cases(test_cases) == RemoveLoop(test_cases, {}, <<>>)

Chars(word) ==
    CASE word = "Test " -> <<"T", "e", "s", "t", " ">>
      [] word = " component" -> <<" ", "c", "o", "m", "p", "o", "n", "e", "n", "t">>

\* generate_from_requirements (lines 110-154): one test case per
\* requirement, title f"Test {req.title}"
generate_from_requirements(requirements) ==
    [i \in 1..Len(requirements) |->
        [id |-> <<"requirements", i>>, title |-> Chars("Test ") \o requirements[i].title]]

\* generate_from_components (lines 156-201): one test case per component,
\* title f"Test {comp.name} component"
generate_from_components(components) ==
    [i \in 1..Len(components) |->
        [id |-> <<"components", i>>,
         title |-> Chars("Test ") \o components[i].name \o Chars(" component")]]

\* generate_comprehensive (lines 203-250); screenshot_cases is what
\* generate_from_screenshots returns for the screenshots
generate_comprehensive(screenshots, screenshot_cases, requirements, components) ==
    LET from_screenshots == IF screenshots # <<>> THEN screenshot_cases ELSE <<>>
        from_requirements ==
            IF requirements # <<>> /\ screenshots = <<>>
            THEN generate_from_requirements(requirements) ELSE <<>>
        from_components ==
            IF components # <<>> /\ screenshots = <<>>
            THEN generate_from_components(components) ELSE <<>>
    IN remove_duplicate_test_cases(from_screenshots \o from_requirements \o from_components)

\* titles that differ in case, in outer blanks, in inner blanks, or at all
Titles ==
    { <<"A">>, <<"a", " ">>, <<" ", "a">>, <<"b">>, <<"a", " ", "b">> }

\* the lists of up to n test cases, each named by its place in the list
CasesUpTo(source, titles, n) ==
    {[i \in 1..Len(ts) |-> [id |-> <<source, i>>, title |-> ts[i]]] :
        ts \in {<<>>} \cup SeqsUpTo(titles, n)}

\* the arguments of generate_comprehensive
Sources ==
    [screenshots : {<<>>, <<"s.png">>},
     screenshot_cases : CasesUpTo("screenshots", {<<"A">>, <<"a", " ">>}, 2),
     requirements : {<<>>, <<[title |-> <<"a">>]>>,
                     <<[title |-> <<"a">>], [title |-> <<"A">>]>>,
                     <<[title |-> <<"a">> \o Chars(" component")]>>},
     components : {<<>>, <<[name |-> <<"a">>]>>}]

InitDedup ==
    /\ dedup_in \in CasesUpTo("in", Titles, MaxCases)
    /\ dedup_once = Pending
    /\ dedup_twice = Pending
    /\ sources = <<>>
    /\ comprehensive = Pending
    /\ ParserIdle /\ AssemblerIdle /\ BatchIdle
    /\ RequirementsIdle /\ PromptIdle /\ SessionIdle /\ DiscoveryIdle
    /\ LoopIdle /\ ProjectIdle

DedupCall ==
    /\ dedup_once = Pending
    /\ dedup_once' = Return(remove_duplicate_test_cases(dedup_in))
    /\ UNCHANGED <<dedup_in, dedup_twice, sources, comprehensive, parserVars,
                   assemblerVars, batchVars, requirementsVars, promptVars, sessionVars,
                   discoveryVars, loopVars, projectVars>>

\* the result is given to the method again
DedupAgain ==
    /\ dedup_once.kind = "return"
    /\ dedup_twice = Pending
    /\ dedup_twice' = Return(remove_duplicate_test_cases(dedup_once.value))
    /\ UNCHANGED <<dedup_in, dedup_once, sources, comprehensive, parserVars,
                   assemblerVars, batchVars, requirementsVars, promptVars, sessionVars,
                   discoveryVars, loopVars, projectVars>>

ComprehensiveCall ==
    /\ comprehensive = Pending
    /\ \E s \in Sources :
        /\ s.screenshots = <<>> => s.screenshot_cases = <<>>
        /\ sources' = <<s>>
        /\ comprehensive' =
               Return(generate_comprehensive(s.screenshots, s.screenshot_cases,
                                             s.requirements, s.components))
    /\ UNCHANGED <<dedup_in, dedup_once, dedup_twice, parserVars,
                   assemblerVars, batchVars, requirementsVars, promptVars, sessionVars,
                   discoveryVars, loopVars, projectVars>>

NextDedup == DedupCall \/ DedupAgain \/ ComprehensiveCall

DedupSpec == InitDedup /\ [][NextDedup]_vars

\* the normalized title of a test case
Normalized(tc) ==
    LET low == [i \in 1..Len(tc.title) |->
                   IF tc.title[i] \in DOMAIN ToLower THEN ToLower[tc.title[i]]
                   ELSE tc.title[i]]
        kept == {i \in 1..Len(low) : low[i] # " "}
    IN IF kept = {} THEN <<>> ELSE SubSeq(low, Min(kept), Max(kept))

\* the places of a list that hold the first test case of their normalized title
FirstPlaces(cases) ==
    {i \in 1..Len(cases) : \A j \in 1..(i - 1) : Normalized(cases[j]) # Normalized(cases[i])}

\* the list is cases without the test cases at the places outside keep
IsSelection(list, cases, keep) ==
    /\ Len(list) = Cardinality(keep)
    /\ \A n \in 1..Len(list) :
          \E i \in keep : /\ list[n] = cases[i]
                          /\ Cardinality({j \in keep : j <= i}) = n

\* the test cases generate_comprehensive collects before it removes duplicates
Collected(s) ==
    IF s.screenshots # <<>> THEN s.screenshot_cases
    ELSE [i \in 1..Len(s.requirements) |->
             [id |-> <<"requirements", i>>,
              title |-> <<"T", "e", "s", "t", " ">> \o s.requirements[i].title]]
         \o [i \in 1..Len(s.components) |->
                [id |-> <<"components", i>>,
                 title |-> <<"T", "e", "s", "t", " ">> \o s.components[i].name
                               \o <<" ", "c", "o", "m", "p", "o", "n", "e", "n", "t">>]]

(***************************************************************************)
(* C30: _remove_duplicate_test_cases returns the test cases that are the   *)
(* first of their lower-cased, trimmed title, in the order of the input,   *)
(* so no two returned test cases share a normalized title; applied to its  *)
(* own result it changes nothing; generate_comprehensive returns the       *)
(* selection of everything it collected, and collects requirement- and     *)
(* component-derived test cases only when no screenshots are given.        *)
(***************************************************************************)
C30_FirstOfEachTitle ==
    /\ dedup_once.kind = "return"
           => /\ IsSelection(dedup_once.value, dedup_in, FirstPlaces(dedup_in))
              /\ \A m, n \in 1..Len(dedup_once.value) :
                     m # n => Normalized(dedup_once.value[m]) # Normalized(dedup_once.value[n])
    /\ dedup_twice.kind = "return" => dedup_twice.value = dedup_once.value
    /\ comprehensive.kind = "return"
           => /\ IsSelection(comprehensive.value, Collected(sources[1]),
                             FirstPlaces(Collected(sources[1])))
              /\ sources[1].screenshots # <<>>
                     => \A n \in 1..Len(comprehensive.value) :
                            comprehensive.value[n].id[1] = "screenshots"

\* of 'A', 'a ' and 'b' the first and the third are returned, and the
\* method has been applied to that result
C30_Witness ==
    /\ dedup_twice.kind = "return"
    /\ Len(dedup_in) = 3
    /\ dedup_in[1].title = <<"A">>
    /\ dedup_in[2].title = <<"a", " ">>
    /\ dedup_in[3].title = <<"b">>
    /\ Len(dedup_once.value) = 2

\* without screenshots the requirement 'a component' and the component 'a'
\* give the same title, and one test case comes back
C30_WitnessComprehensive ==
    /\ comprehensive.kind = "return"
    /\ sources[1].screenshots = <<>>
    /\ Len(sources[1].requirements) = 1
    /\ Len(sources[1].components) = 1
    /\ Len(comprehensive.value) = 1

====
